---- MODULE Spec2Model ----
(***************************************************************************)
(* Model of the interactive selection engine of mac-cleaner-cli: the       *)
(* directory grouper (utils/grouping.ts), the two-pane file picker prompt  *)
(* (pickers/file-picker.ts) and the hand-over of the confirmed selection   *)
(* to the cleaner (commands/interactive.ts, selectItemsInteractively).     *)
(*                                                                         *)
(* Carets are 0-based as in the source; a row sequence rows is a TLA+      *)
(* sequence, so the row under caret c is rows[c + 1].                      *)
(***************************************************************************)
EXTENDS Integers, Sequences, FiniteSets, TLC

\* ------------------------------------------------------------------------
\* Program constants (file-picker.ts)
\* ------------------------------------------------------------------------
FILES_PAGE_SIZE == 6
DIR_VIS_CHILD_LIMIT == 5
EXPAND_INCREMENT == 10

\* Bound of the model: a directory is expanded (m, right on its expand hint)
\* at most MaxExpands times above the default limit; the code has no such cap.
MaxExpands == 1

\* In the scenario with the directory of eight files a directory is expanded
\* at most MaxDeepExpands times, so that an expansion of an already expanded
\* directory happens.
MaxDeepExpands == 2

NoCategory == "none"
NoItem == <<>>

\* ------------------------------------------------------------------------
\* Generic helpers for JS Map / Record values: a map is a function whose
\* DOMAIN is the set of keys present.
\* ------------------------------------------------------------------------
EmptyMap == [k \in {} |-> {}]

MapSet(m, k, v) == [x \in (DOMAIN m) \cup {k} |-> IF x = k THEN v ELSE m[x]]

\* map.get(k) || new Set()
GetOrEmpty(m, k) == IF k \in DOMAIN m THEN m[k] ELSE {}

Range(s) == {s[i] : i \in 1..Len(s)}

Min(a, b) == IF a < b THEN a ELSE b

Max(a, b) == IF a > b THEN a ELSE b

\* ------------------------------------------------------------------------
\* Scan results handed to the picker.  A path is the sequence of its
\* segments; path.dirname drops the last one.
\* ------------------------------------------------------------------------
Item(dir, name, size) == [path |-> <<dir, name>>, size |-> size]

Dirname(p) == SubSeq(p, 1, Len(p) - 1)

ScanResult(id, safety, fs, items) ==
    [category |-> [id |-> id, safetyLevel |-> safety, supportsFileSelection |-> fs],
     items |-> items]

\* One directory holding more files than the default limit shows, beside a
\* category without per-file selection.
ScenarioHidden ==
    << ScanResult("large-files", "safe", TRUE,
                  << Item("a", "f1", 30), Item("a", "f2", 60), Item("a", "f3", 10),
                     Item("a", "f4", 50), Item("a", "f5", 20), Item("a", "f6", 40) >>),
       ScanResult("trash", "safe", FALSE, << Item("t", "g1", 5) >>) >>

\* Two categories with per-file selection, one of them spread over two
\* directories.
ScenarioTwoDirs ==
    << ScanResult("downloads", "safe", TRUE,
                  << Item("b", "f1", 10), Item("c", "f2", 20) >>),
       ScanResult("large-files", "safe", TRUE, << Item("d", "f3", 70) >>) >>

\* A directory of eight files listed after a directory of two larger ones,
\* beside a second category with file selection and one without.
ScenarioDeep ==
    << ScanResult("large-files", "safe", TRUE,
                  << Item("a", "f1", 8), Item("a", "f2", 7), Item("a", "f3", 6),
                     Item("a", "f4", 5), Item("a", "f5", 4), Item("a", "f6", 3),
                     Item("a", "f7", 2), Item("a", "f8", 1),
                     Item("b", "g1", 90), Item("b", "g2", 80) >>),
       ScanResult("downloads", "safe", TRUE, << Item("c", "h1", 10) >>),
       ScanResult("trash", "safe", FALSE, << Item("t", "g1", 5) >>) >>

Scenarios == {ScenarioHidden, ScenarioTwoDirs}

\* ------------------------------------------------------------------------
\* utils/grouping.ts
\* ------------------------------------------------------------------------
\* Array.prototype.sort((a, b) => b.size - a.size): stable, descending.
RECURSIVE InsertBySize(_, _)
InsertBySize(x, s) ==
    IF s = <<>> THEN <<x>>
    ELSE IF Head(s).size >= x.size THEN <<Head(s)>> \o InsertBySize(x, Tail(s))
    ELSE <<x>> \o s

RECURSIVE SortBySize(_)
SortBySize(s) ==
    IF s = <<>> THEN <<>>
    ELSE InsertBySize(s[Len(s)], SortBySize(SubSeq(s, 1, Len(s) - 1)))

RECURSIVE InsertByLargest(_, _)
InsertByLargest(g, s) ==
    IF s = <<>> THEN <<g>>
    ELSE IF Head(s).largestFileSize >= g.largestFileSize
         THEN <<Head(s)>> \o InsertByLargest(g, Tail(s))
    ELSE <<g>> \o s

RECURSIVE SortByLargest(_)
SortByLargest(s) ==
    IF s = <<>> THEN <<>>
    ELSE InsertByLargest(s[Len(s)], SortByLargest(SubSeq(s, 1, Len(s) - 1)))

\* Keys of the Map<dirPath, files[]> in insertion (first-encounter) order.
RECURSIVE DirsInOrder(_)
DirsInOrder(files) ==
    IF files = <<>> THEN <<>>
    ELSE LET before == DirsInOrder(SubSeq(files, 1, Len(files) - 1))
             d == Dirname(files[Len(files)].path)
         IN IF d \in Range(before) THEN before ELSE Append(before, d)

FilesOfDir(files, d) == SelectSeq(files, LAMBDA f : Dirname(f.path) = d)

\* Variant of groupByDirectory: the groups stay in first-encounter order.
groupByDirectory_NoDirectorySort(files) ==
    LET dirs == DirsInOrder(files)
        group(d) == LET sortedFiles == SortBySize(FilesOfDir(files, d))
                    IN [path |-> d, files |-> sortedFiles,
                        largestFileSize |-> IF sortedFiles = <<>> THEN 0
                                            ELSE sortedFiles[1].size]
    IN [i \in 1..Len(dirs) |-> group(dirs[i])]

groupByDirectory(files) ==
    LET dirs == DirsInOrder(files)
        group(d) == LET sortedFiles == SortBySize(FilesOfDir(files, d))
                    IN [path |-> d, files |-> sortedFiles,
                        largestFileSize |-> IF sortedFiles = <<>> THEN 0
                                            ELSE sortedFiles[1].size]
    IN SortByLargest([i \in 1..Len(dirs) |-> group(dirs[i])])

\* Variant of applyExpandLimits: a directory with exactly limit files counts
\* as having more.
applyExpandLimits_HasMoreAtLimit(groups, limits, defaultLimit) ==
    [i \in 1..Len(groups) |->
        LET limit == IF groups[i].path \in DOMAIN limits
                     THEN limits[groups[i].path] ELSE defaultLimit
        IN [group |-> groups[i],
            visibleCount |-> Min(limit, Len(groups[i].files)),
            hasMore |-> Len(groups[i].files) >= limit]]

applyExpandLimits(groups, limits, defaultLimit) ==
    [i \in 1..Len(groups) |->
        LET limit == IF groups[i].path \in DOMAIN limits
                     THEN limits[groups[i].path] ELSE defaultLimit
        IN [group |-> groups[i],
            visibleCount |-> Min(limit, Len(groups[i].files)),
            hasMore |-> Len(groups[i].files) > limit]]

HeaderRow(g) ==
    [type |-> "directory-header", directoryKey |-> g.path, item |-> NoItem,
     selectable |-> FALSE, totalFilesInDir |-> Len(g.files), hiddenCount |-> 0]

FileRow(g, i) ==
    [type |-> "file", directoryKey |-> g.path, item |-> g.files[i],
     selectable |-> TRUE, totalFilesInDir |-> Len(g.files), hiddenCount |-> 0]

HintRow(g, visibleCount) ==
    [type |-> "expand-hint", directoryKey |-> g.path, item |-> NoItem,
     selectable |-> FALSE, totalFilesInDir |-> Len(g.files),
     hiddenCount |-> Len(g.files) - visibleCount]

RowsOfGroup(lg) ==
    <<HeaderRow(lg.group)>>
    \o [i \in 1..lg.visibleCount |-> FileRow(lg.group, i)]
    \o (IF lg.hasMore THEN <<HintRow(lg.group, lg.visibleCount)>> ELSE <<>>)

RECURSIVE formatAsDisplayItems(_)
formatAsDisplayItems(limitedGroups) ==
    IF limitedGroups = <<>> THEN <<>>
    ELSE RowsOfGroup(Head(limitedGroups)) \o formatAsDisplayItems(Tail(limitedGroups))

groupFilesByDirectory(files, dirExpandLimits) ==
    formatAsDisplayItems(
        applyExpandLimits(groupByDirectory(files), dirExpandLimits, DIR_VIS_CHILD_LIMIT))

\* ------------------------------------------------------------------------
\* State of one interactiveCommand run, from the moment the picker opens
\* ------------------------------------------------------------------------
VARIABLES
    results,                      \* config.results (resultsWithItems)
    categoriesWithFileSelection,  \* config.categoriesWithFileSelection
    activePane,                   \* "categories" | "files"
    categoryCaret,                \* index into results
    selectedCategories,           \* Set<CategoryId>
    selectedFilesByCategory,      \* Map<CategoryId, Set<path>>
    categoryFilePickerStates,     \* Record<CategoryId, FilePickerState>
    pc,                           \* position in interactiveCommand, see below
    filePickerResult,             \* value passed to done()
    selectedItems,                \* return value of selectItemsInteractively
    summary,                      \* summary.results of runAllScans
    options,                      \* InteractiveOptions: includeRisky, filePicker
    proceed,                      \* answer of confirm: "unasked" | "yes" | "no"
    cleanCalls,                   \* arguments of the scanner.clean calls, in order
    returned,                     \* "none" | "null" | "summary"
    groupFiles,                   \* groupFilesByDirectory: argument files
    groupLimits,                  \* groupFilesByDirectory: argument dirExpandLimits
    displayItems,                 \* groupFilesByDirectory: return value
    grouped,                      \* groupFilesByDirectory has returned
    copyStatus,                   \* useState<string | null>: <<>> is null
    copyTimeoutRef,               \* copyTimeoutRef.current: "null" | "pending" | "fired"
    timers,                       \* number of setTimeout callbacks not yet run or cleared
    clipboard,                    \* settled copyToClipboard promises whose callback has not run
    windowInput,                  \* render of one category's rows: active, fileCaret, length
    fileWindow,                   \* render: fileStart and fileEnd
    tasks,                        \* runWithConcurrency: labels of the tasks, in order
    concurrency,                  \* runWithConcurrency: argument concurrency
    taskResults,                  \* results: per task a hole, undefined or the task's value
    executing,                    \* Set of the chains p, by task index
    scanIndex,                    \* loop variable i
    promises,                     \* state of each task.fn() promise
    chain,                        \* how far each chain p has run
    starts,                       \* number of calls of each scanner.scan
    awaiting,                     \* chains handed to Promise.race / Promise.allSettled
    scanPc,                       \* "idle" | "loop" | "race" | "allSettled" | "returned"
    scanSummary                   \* summary.results that runScans returns

vars == <<results, categoriesWithFileSelection, activePane, categoryCaret,
          selectedCategories, selectedFilesByCategory, categoryFilePickerStates,
          pc, filePickerResult, selectedItems,
          summary, options, proceed, cleanCalls, returned,
          groupFiles, groupLimits, displayItems, grouped,
          copyStatus, copyTimeoutRef, timers, clipboard,
          windowInput, fileWindow,
          tasks, concurrency, taskResults, executing, scanIndex, promises, chain,
          starts, awaiting, scanPc, scanSummary>>

\* pc: "scanned" (runAllScans resolved), "picker" (the prompt is open),
\* "picked" (done() was called), "selected" (selectItemsInteractively returned),
\* "confirm" (the confirm prompt is open), "cleaning", "returned",
\* "exited" (process.exit after an aborted prompt); "grouping" when a call of
\* groupFilesByDirectory is taken on its own

\* A call of groupFilesByDirectory taken on its own
grouping == <<groupFiles, groupLimits, displayItems, grouped>>

\* The c command of the files pane and the callbacks it leaves behind
copy == <<copyStatus, copyTimeoutRef, timers, clipboard>>

\* The pagination window of one render taken on its own
window == <<windowInput, fileWindow>>

\* A parallel run of the scanners taken on its own
scan == <<tasks, concurrency, taskResults, executing, scanIndex, promises, chain,
          starts, awaiting, scanPc, scanSummary>>

config == <<summary, options, results, categoriesWithFileSelection, grouping, window,
            scan>>

\* What no selection, caret or expand command writes
inputs == <<config, copy>>

\* interactiveCommand after selectItemsInteractively returned
afterSelection == <<proceed, cleanCalls, returned>>

afterPicker == <<pc, filePickerResult, selectedItems, afterSelection>>

NoResult == [selectedCategories |-> {}, selectedFilesByCategory |-> EmptyMap,
             confirmed |-> FALSE]

CategoryIds(rs) == {rs[i].category.id : i \in 1..Len(rs)}

\* results.find((r) => r.category.id === id)
ResultOf(rs, id) ==
    rs[CHOOSE i \in 1..Len(rs) :
          /\ rs[i].category.id = id
          /\ \A j \in 1..(i - 1) : rs[j].category.id # id]

\* new Set(result.items.map((item) => item.path))
AllFilePaths(result) == {result.items[i].path : i \in 1..Len(result.items)}

\* interactive.ts: the categories that get the file picker UI
FileSelectionCategories(rs, enableFilePickerForAll) ==
    IF enableFilePickerForAll THEN CategoryIds(rs)
    ELSE {rs[i].category.id : i \in {j \in 1..Len(rs) : rs[j].category.supportsFileSelection}}

\* ------------------------------------------------------------------------
\* Per-category UI state store
\* ------------------------------------------------------------------------
DEFAULT_PICKER_STATE ==
    [visible |-> FALSE, active |-> FALSE, fileCaret |-> 0, dirExpandLimits |-> EmptyMap]

getPickerState(store, categoryId) ==
    IF categoryId \in DOMAIN store THEN store[categoryId] ELSE DEFAULT_PICKER_STATE

\* updates is a partial FilePickerState: a function on a subset of its fields.
\* store is the store of the render whose closure the handler runs in.
updatePickerState(store, categoryId, updates) ==
    LET current == getPickerState(store, categoryId)
        nextState == [f \in DOMAIN current |->
                         IF f \in DOMAIN updates THEN updates[f] ELSE current[f]]
    IN MapSet(store, categoryId, nextState)

\* Several updatePickerState calls made by one keypress handler all spread the
\* same render-time store, and each setCategoryFilePickerStates replaces the
\* value of the previous one: the store ends as the last call leaves it.
UpdatePickerStates(store, calls) ==
    IF calls = <<>> THEN store
    ELSE updatePickerState(store, calls[Len(calls)].categoryId, calls[Len(calls)].updates)

\* Variant of setActiveCategory: the reset loop writes active = true.
setActiveCategory_ResetWritesTrue(store, categoryId) ==
    LET cleared == [k \in DOMAIN store |-> [store[k] EXCEPT !.active = TRUE]]
    IN IF categoryId = NoCategory THEN cleared
       ELSE MapSet(cleared, categoryId,
                   [getPickerState(store, categoryId) EXCEPT !.active = TRUE, !.visible = TRUE])

setActiveCategory(store, categoryId) ==
    LET cleared == [k \in DOMAIN store |-> [store[k] EXCEPT !.active = FALSE]]
    IN IF categoryId = NoCategory THEN cleared
       ELSE MapSet(cleared, categoryId,
                   [getPickerState(store, categoryId) EXCEPT !.active = TRUE, !.visible = TRUE])

\* First entry with active = true; the store holds at most one.
getActiveCategory(store) ==
    IF \E k \in DOMAIN store : store[k].active
    THEN CHOOSE k \in DOMAIN store : store[k].active
    ELSE NoCategory

\* allGroupedFilesByCategory.get(id) || []
GroupedFiles(rs, fsCats, store, id) ==
    IF id \in fsCats /\ id \in CategoryIds(rs)
    THEN groupFilesByDirectory(ResultOf(rs, id).items,
                               getPickerState(store, id).dirExpandLimits)
    ELSE <<>>

NoRow == [type |-> "undefined", directoryKey |-> <<>>, item |-> NoItem,
          selectable |-> FALSE, totalFilesInDir |-> 0, hiddenCount |-> 0]

\* rows[caret], undefined when the index is out of range
RowAt(rows, caret) == IF caret >= 0 /\ caret < Len(rows) THEN rows[caret + 1] ELSE NoRow

activeCategory == getActiveCategory(categoryFilePickerStates)

currentResult == results[categoryCaret + 1]

activeGroupedFiles ==
    GroupedFiles(results, categoriesWithFileSelection, categoryFilePickerStates, activeCategory)

activeFileCaret == getPickerState(categoryFilePickerStates, activeCategory).fileCaret

\* ------------------------------------------------------------------------
\* useKeypress handler: enter (either pane)
\* ------------------------------------------------------------------------
\* Variant of KeyEnter: the returned map drops the categories whose set is empty.
KeyEnter_DropsEmptySets ==
    /\ pc = "picker"
    /\ filePickerResult' =
          [selectedCategories |-> selectedCategories,
           selectedFilesByCategory |->
               [k \in {c \in DOMAIN selectedFilesByCategory :
                          selectedFilesByCategory[c] # {}} |-> selectedFilesByCategory[k]],
           confirmed |-> TRUE]
    /\ pc' = "picked"
    /\ UNCHANGED <<inputs, activePane, categoryCaret, selectedCategories,
                   selectedFilesByCategory, categoryFilePickerStates, selectedItems,
                   afterSelection>>

KeyEnter ==
    /\ pc = "picker"
    /\ filePickerResult' = [selectedCategories |-> selectedCategories,
                            selectedFilesByCategory |-> selectedFilesByCategory,
                            confirmed |-> TRUE]
    /\ pc' = "picked"
    /\ UNCHANGED <<inputs, activePane, categoryCaret, selectedCategories,
                   selectedFilesByCategory, categoryFilePickerStates, selectedItems,
                   afterSelection>>

\* ------------------------------------------------------------------------
\* useKeypress handler: categories pane
\* ------------------------------------------------------------------------
\* Math.max(0, categoryCaret - 1)
CatUpCaret(caret) == Max(0, caret - 1)

\* Variant of CatDownCaret: down at the last category goes to the first.
CatDownCaret_Wraps(rs, caret) == (caret + 1) % Len(rs)

\* Math.min(results.length - 1, categoryCaret + 1)
CatDownCaret(rs, caret) == Min(Len(rs) - 1, caret + 1)

CatUp ==
    /\ pc = "picker" /\ activePane = "categories"
    /\ categoryCaret' = CatUpCaret(categoryCaret)
    /\ UNCHANGED <<inputs, activePane, selectedCategories, selectedFilesByCategory,
                   categoryFilePickerStates, afterPicker>>

CatDown ==
    /\ pc = "picker" /\ activePane = "categories"
    /\ categoryCaret' = CatDownCaret(results, categoryCaret)
    /\ UNCHANGED <<inputs, activePane, selectedCategories, selectedFilesByCategory,
                   categoryFilePickerStates, afterPicker>>

\* Variant of CatSpaceSelection: selecting gives any category a file set.
CatSpaceSelection_AnyCategory(rs, fsCats, selCats, selFiles, currentCategory) ==
    IF currentCategory \in selCats
    THEN [cats |-> selCats \ {currentCategory},
          files |-> IF currentCategory \in fsCats
                    THEN MapSet(selFiles, currentCategory, {})
                    ELSE selFiles]
    ELSE [cats |-> selCats \cup {currentCategory},
          files |-> MapSet(selFiles, currentCategory,
                           AllFilePaths(ResultOf(rs, currentCategory)))]

\* Variant of CatSpaceSelection: deselecting keeps the category's file set.
CatSpaceSelection_KeepsFiles(rs, fsCats, selCats, selFiles, currentCategory) ==
    IF currentCategory \in selCats
    THEN [cats |-> selCats \ {currentCategory}, files |-> selFiles]
    ELSE [cats |-> selCats \cup {currentCategory},
          files |-> IF currentCategory \in fsCats
                    THEN MapSet(selFiles, currentCategory,
                                AllFilePaths(ResultOf(rs, currentCategory)))
                    ELSE selFiles]

\* Variant of CatSpaceSelection: selecting adds to the file set already there.
CatSpaceSelection_MergesFiles(rs, fsCats, selCats, selFiles, currentCategory) ==
    IF currentCategory \in selCats
    THEN [cats |-> selCats \ {currentCategory},
          files |-> IF currentCategory \in fsCats
                    THEN MapSet(selFiles, currentCategory, {})
                    ELSE selFiles]
    ELSE [cats |-> selCats \cup {currentCategory},
          files |-> IF currentCategory \in fsCats /\ GetOrEmpty(selFiles, currentCategory) = {}
                    THEN MapSet(selFiles, currentCategory,
                                AllFilePaths(ResultOf(rs, currentCategory)))
                    ELSE selFiles]

\* Variant of CatSpaceSelection: deselecting starts from a fresh map.
CatSpaceSelection_FreshMap(rs, fsCats, selCats, selFiles, currentCategory) ==
    IF currentCategory \in selCats
    THEN [cats |-> selCats \ {currentCategory},
          files |-> IF currentCategory \in fsCats
                    THEN MapSet(EmptyMap, currentCategory, {})
                    ELSE selFiles]
    ELSE [cats |-> selCats \cup {currentCategory},
          files |-> IF currentCategory \in fsCats
                    THEN MapSet(selFiles, currentCategory,
                                AllFilePaths(ResultOf(rs, currentCategory)))
                    ELSE selFiles]

\* space: the new selectedCategories / selectedFilesByCategory
CatSpaceSelection(rs, fsCats, selCats, selFiles, currentCategory) ==
    IF currentCategory \in selCats
    THEN [cats |-> selCats \ {currentCategory},
          files |-> IF currentCategory \in fsCats
                    THEN MapSet(selFiles, currentCategory, {})
                    ELSE selFiles]
    ELSE [cats |-> selCats \cup {currentCategory},
          files |-> IF currentCategory \in fsCats
                    THEN MapSet(selFiles, currentCategory,
                                AllFilePaths(ResultOf(rs, currentCategory)))
                    ELSE selFiles]

CatSpace ==
    /\ pc = "picker" /\ activePane = "categories"
    /\ LET currentCategory == currentResult.category.id
           sel == CatSpaceSelection(results, categoriesWithFileSelection,
                                    selectedCategories, selectedFilesByCategory,
                                    currentCategory)
       IN /\ selectedCategories' = sel.cats
          /\ selectedFilesByCategory' = sel.files
          /\ categoryFilePickerStates' =
                IF currentCategory \in categoriesWithFileSelection
                THEN updatePickerState(categoryFilePickerStates, currentCategory,
                                       [visible |-> currentCategory \notin selectedCategories])
                ELSE categoryFilePickerStates
    /\ UNCHANGED <<inputs, activePane, categoryCaret, afterPicker>>

\* The file-selection categories in results order
FileSelectionResults(rs, fsCats) == SelectSeq(rs, LAMBDA r : r.category.id \in fsCats)

\* a, select-all branch: every category that supports file selection gets all
\* of its paths; the map is built from scratch.
SelectAllFiles(rs, fsCats) ==
    [id \in CategoryIds(rs) \cap fsCats |-> AllFilePaths(ResultOf(rs, id))]

\* Variant of CatASelection: select-all keeps the file set of a category that
\* already has files selected.
CatASelection_KeepsPartial(rs, fsCats, selCats, selFiles) ==
    LET allCategories == CategoryIds(rs)
        allSelected == allCategories \subseteq selCats
    IN IF allSelected
       THEN [cats |-> {}, files |-> EmptyMap]
       ELSE [cats |-> allCategories,
             files |-> [id \in allCategories \cap fsCats |->
                           IF GetOrEmpty(selFiles, id) # {}
                           THEN selFiles[id]
                           ELSE AllFilePaths(ResultOf(rs, id))]]

\* Variant of CatASelection: select-all gives every file-selection category
\* the paths of all categories.
CatASelection_SharedPaths(rs, fsCats, selCats, selFiles) ==
    LET allCategories == CategoryIds(rs)
        allSelected == allCategories \subseteq selCats
    IN IF allSelected
       THEN [cats |-> {}, files |-> EmptyMap]
       ELSE [cats |-> allCategories,
             files |-> [id \in DOMAIN SelectAllFiles(rs, fsCats) |->
                           UNION {AllFilePaths(rs[i]) : i \in 1..Len(rs)}]]

\* a: the new selectedCategories / selectedFilesByCategory
CatASelection(rs, fsCats, selCats, selFiles) ==
    LET allCategories == CategoryIds(rs)
        allSelected == allCategories \subseteq selCats
    IN IF allSelected
       THEN [cats |-> {}, files |-> EmptyMap]
       ELSE [cats |-> allCategories, files |-> SelectAllFiles(rs, fsCats)]

CatA ==
    /\ pc = "picker" /\ activePane = "categories"
    /\ LET allCategories == CategoryIds(results)
           allSelected == allCategories \subseteq selectedCategories
           fsResults == FileSelectionResults(results, categoriesWithFileSelection)
           sel == CatASelection(results, categoriesWithFileSelection,
                                selectedCategories, selectedFilesByCategory)
       IN /\ selectedCategories' = sel.cats
          /\ selectedFilesByCategory' = sel.files
          /\ categoryFilePickerStates' =
                IF allSelected
                THEN EmptyMap
                ELSE UpdatePickerStates(categoryFilePickerStates,
                         [i \in 1..Len(fsResults) |->
                             [categoryId |-> fsResults[i].category.id,
                              updates |-> [visible |-> TRUE]]])
    /\ UNCHANGED <<inputs, activePane, categoryCaret, afterPicker>>

\* Variant of InvertFileSelections: a category that becomes deselected keeps
\* its map entry.
InvertFileSelections_KeepsDeselected(rs, fsCats, selCats, selFiles) ==
    LET ids == CategoryIds(rs)
        added == (ids \ selCats) \cap fsCats
    IN [id \in (DOMAIN selFiles) \cup added |->
           IF id \in added THEN AllFilePaths(ResultOf(rs, id)) ELSE selFiles[id]]

\* i: every category flips; a file-selection category loses its map entry
\* when it becomes deselected and gets all of its paths when it becomes selected.
InvertFileSelections(rs, fsCats, selCats, selFiles) ==
    LET ids == CategoryIds(rs)
        keep == (DOMAIN selFiles) \ (ids \cap selCats \cap fsCats)
        added == (ids \ selCats) \cap fsCats
    IN [id \in keep \cup added |->
           IF id \in added THEN AllFilePaths(ResultOf(rs, id)) ELSE selFiles[id]]

CatI ==
    /\ pc = "picker" /\ activePane = "categories"
    /\ LET ids == CategoryIds(results)
           fsResults == FileSelectionResults(results, categoriesWithFileSelection)
       IN /\ selectedCategories' = (selectedCategories \ ids) \cup (ids \ selectedCategories)
          /\ selectedFilesByCategory' =
                InvertFileSelections(results, categoriesWithFileSelection,
                                     selectedCategories, selectedFilesByCategory)
          /\ categoryFilePickerStates' =
                UpdatePickerStates(categoryFilePickerStates,
                    [i \in 1..Len(fsResults) |->
                        [categoryId |-> fsResults[i].category.id,
                         updates |-> [visible |->
                                         fsResults[i].category.id \notin selectedCategories]]])
    /\ UNCHANGED <<inputs, activePane, categoryCaret, afterPicker>>

\* index of the first selectable row, Len(rows) when there is none
RECURSIVE FirstSelectableFrom(_, _)
FirstSelectableFrom(rows, c) ==
    IF c < Len(rows) /\ ~RowAt(rows, c).selectable
    THEN FirstSelectableFrom(rows, c + 1)
    ELSE c

\* Variant of InitialCaret: the remembered caret is kept whenever it is in range.
InitialCaret_KeepsInRange(rows, remembered) ==
    LET initialCaret == IF remembered >= Len(rows)
                        THEN FirstSelectableFrom(rows, 0)
                        ELSE remembered
    IN IF initialCaret < Len(rows) THEN initialCaret ELSE 0

InitialCaret(rows, remembered) ==
    LET initialCaret == IF remembered >= Len(rows) \/ ~RowAt(rows, remembered).selectable
                        THEN FirstSelectableFrom(rows, 0)
                        ELSE remembered
    IN IF initialCaret < Len(rows) THEN initialCaret ELSE 0

\* Variant of EnterFilesPane: the entered category starts from the default
\* picker state.
EnterFilesPane_FreshState(store, id, groupedFiles) ==
    LET cleared == [k \in DOMAIN store |-> [store[k] EXCEPT !.active = FALSE]]
    IN MapSet(cleared, id,
              [DEFAULT_PICKER_STATE EXCEPT !.active = TRUE, !.visible = TRUE,
                  !.fileCaret = InitialCaret(groupedFiles, DEFAULT_PICKER_STATE.fileCaret)])

\* The store the right branch writes: next.
EnterFilesPane(store, id, groupedFiles) ==
    LET base == getPickerState(store, id)
        cleared == [k \in DOMAIN store |-> [store[k] EXCEPT !.active = FALSE]]
    IN MapSet(cleared, id,
              [base EXCEPT !.active = TRUE, !.visible = TRUE,
                           !.fileCaret = InitialCaret(groupedFiles, base.fileCaret)])

CatRight ==
    /\ pc = "picker" /\ activePane = "categories"
    /\ LET id == currentResult.category.id
           groupedFiles == GroupedFiles(results, categoriesWithFileSelection,
                                        categoryFilePickerStates, id)
       IN IF id \in categoriesWithFileSelection /\ Len(groupedFiles) > 0
          THEN /\ categoryFilePickerStates' =
                     EnterFilesPane(categoryFilePickerStates, id, groupedFiles)
               /\ activePane' = "files"
          ELSE UNCHANGED <<categoryFilePickerStates, activePane>>
    /\ UNCHANGED <<inputs, categoryCaret, selectedCategories, selectedFilesByCategory,
                   afterPicker>>

\* ------------------------------------------------------------------------
\* useKeypress handler: files pane (activePane === "files" && activeCategory)
\* ------------------------------------------------------------------------
InFilesPane == pc = "picker" /\ activePane = "files" /\ activeCategory # NoCategory

RECURSIVE SkipUp(_, _)
SkipUp(rows, c) ==
    IF c >= 0 /\ c < Len(rows) /\ ~RowAt(rows, c).selectable
    THEN SkipUp(rows, c - 1)
    ELSE c

RECURSIVE SkipDown(_, _)
SkipDown(rows, c) ==
    IF c < Len(rows) /\ ~RowAt(rows, c).selectable
    THEN SkipDown(rows, c + 1)
    ELSE c

\* The caret the up branch leaves: newCaret when the guarded update runs,
\* fileCaret when it does not.
FilesUpCaret(rows, fileCaret) ==
    LET newCaret == SkipUp(rows, fileCaret - 1)
    IN IF newCaret >= 0 /\ newCaret < Len(rows) THEN newCaret ELSE fileCaret

\* The caret the down branch leaves.
FilesDownCaret(rows, fileCaret) ==
    LET newCaret == SkipDown(rows, fileCaret + 1)
    IN IF newCaret < Len(rows) THEN newCaret ELSE fileCaret

\* newCaret never equals fileCaret (the scan starts one row off and moves
\* away), so "the caret differs" is the handler's "newCaret is in range".
FilesUp ==
    /\ InFilesPane
    /\ LET newCaret == FilesUpCaret(activeGroupedFiles, activeFileCaret)
       IN categoryFilePickerStates' =
             IF newCaret # activeFileCaret
             THEN updatePickerState(categoryFilePickerStates, activeCategory,
                                    [fileCaret |-> newCaret])
             ELSE categoryFilePickerStates
    /\ UNCHANGED <<inputs, activePane, categoryCaret, selectedCategories,
                   selectedFilesByCategory, afterPicker>>

FilesDown ==
    /\ InFilesPane
    /\ LET newCaret == FilesDownCaret(activeGroupedFiles, activeFileCaret)
       IN categoryFilePickerStates' =
             IF newCaret # activeFileCaret
             THEN updatePickerState(categoryFilePickerStates, activeCategory,
                                    [fileCaret |-> newCaret])
             ELSE categoryFilePickerStates
    /\ UNCHANGED <<inputs, activePane, categoryCaret, selectedCategories,
                   selectedFilesByCategory, afterPicker>>

\* Variant of FilesSpaceSelection: the category stays selected when its last
\* file is toggled off.
FilesSpaceSelection_KeepsCategory(selCats, selFiles, cat, currentFile) ==
    IF currentFile.selectable /\ currentFile.item # NoItem
    THEN LET currentFiles == GetOrEmpty(selFiles, cat)
             p == currentFile.item.path
             newSelected == IF p \in currentFiles THEN currentFiles \ {p}
                            ELSE currentFiles \cup {p}
             newCategories == IF p \in currentFiles THEN selCats ELSE selCats \cup {cat}
         IN [cats |-> newCategories, files |-> MapSet(selFiles, cat, newSelected)]
    ELSE [cats |-> selCats, files |-> selFiles]

\* space on the row currentFile of category cat
FilesSpaceSelection(selCats, selFiles, cat, currentFile) ==
    IF currentFile.selectable /\ currentFile.item # NoItem
    THEN LET currentFiles == GetOrEmpty(selFiles, cat)
             p == currentFile.item.path
             newSelected == IF p \in currentFiles THEN currentFiles \ {p}
                            ELSE currentFiles \cup {p}
             newCategories == IF p \in currentFiles
                              THEN (IF newSelected = {} THEN selCats \ {cat} ELSE selCats)
                              ELSE selCats \cup {cat}
         IN [cats |-> newCategories, files |-> MapSet(selFiles, cat, newSelected)]
    ELSE [cats |-> selCats, files |-> selFiles]

FilesSpace ==
    /\ InFilesPane
    /\ LET sel == FilesSpaceSelection(selectedCategories, selectedFilesByCategory,
                                      activeCategory,
                                      RowAt(activeGroupedFiles, activeFileCaret))
       IN /\ selectedCategories' = sel.cats
          /\ selectedFilesByCategory' = sel.files
    /\ UNCHANGED <<inputs, activePane, categoryCaret, categoryFilePickerStates, afterPicker>>

\* Variant of FilesASelection: a category counts as fully selected as soon as
\* one of its files is.
FilesASelection_AnySelected(rs, selCats, selFiles, cat) ==
    LET currentFiles == GetOrEmpty(selFiles, cat)
        allFiles == AllFilePaths(ResultOf(rs, cat))
        allSelected == allFiles \cap currentFiles # {}
        newSelected == IF allSelected THEN currentFiles \ allFiles
                       ELSE currentFiles \cup allFiles
        newCategories == IF allSelected
                         THEN (IF newSelected = {} THEN selCats \ {cat} ELSE selCats)
                         ELSE selCats \cup {cat}
    IN [cats |-> newCategories, files |-> MapSet(selFiles, cat, newSelected)]

\* Variant of FilesASelection: deselecting all files keeps the category selected.
FilesASelection_KeepsCategory(rs, selCats, selFiles, cat) ==
    LET currentFiles == GetOrEmpty(selFiles, cat)
        allFiles == AllFilePaths(ResultOf(rs, cat))
        allSelected == allFiles \subseteq currentFiles
        newSelected == IF allSelected THEN currentFiles \ allFiles
                       ELSE currentFiles \cup allFiles
    IN [cats |-> IF allSelected THEN selCats ELSE selCats \cup {cat},
        files |-> MapSet(selFiles, cat, newSelected)]

\* a over ALL files of categoryResult.items
FilesASelection(rs, selCats, selFiles, cat) ==
    LET currentFiles == GetOrEmpty(selFiles, cat)
        allFiles == AllFilePaths(ResultOf(rs, cat))
        allSelected == allFiles \subseteq currentFiles
        newSelected == IF allSelected THEN currentFiles \ allFiles
                       ELSE currentFiles \cup allFiles
        newCategories == IF allSelected
                         THEN (IF newSelected = {} THEN selCats \ {cat} ELSE selCats)
                         ELSE selCats \cup {cat}
    IN [cats |-> newCategories, files |-> MapSet(selFiles, cat, newSelected)]

FilesA ==
    /\ InFilesPane
    /\ IF activeCategory \in CategoryIds(results)
       THEN LET sel == FilesASelection(results, selectedCategories,
                                       selectedFilesByCategory, activeCategory)
            IN /\ selectedCategories' = sel.cats
               /\ selectedFilesByCategory' = sel.files
       ELSE UNCHANGED <<selectedCategories, selectedFilesByCategory>>
    /\ UNCHANGED <<inputs, activePane, categoryCaret, categoryFilePickerStates, afterPicker>>

\* d: the paths of the rows of activeGroupedFiles that are selectable and carry
\* the caret row's directoryKey
DirFiles(rows, currentFile) ==
    {rows[i].item.path :
        i \in {j \in 1..Len(rows) : /\ rows[j].selectable
                                    /\ rows[j].directoryKey = currentFile.directoryKey
                                    /\ rows[j].item # NoItem}}

\* Variant of FilesDSelection: d couples the category like a and i do.
FilesDSelection_CouplesCategory(selCats, selFiles, cat, rows, currentFile) ==
    IF currentFile.selectable
    THEN LET currentFiles == GetOrEmpty(selFiles, cat)
             dirFiles == DirFiles(rows, currentFile)
             allDirSelected == dirFiles \subseteq currentFiles
             newSelected == IF allDirSelected THEN currentFiles \ dirFiles
                            ELSE currentFiles \cup dirFiles
             newCategories == IF newSelected = {} THEN selCats \ {cat}
                              ELSE selCats \cup {cat}
         IN [cats |-> newCategories, files |-> MapSet(selFiles, cat, newSelected)]
    ELSE [cats |-> selCats, files |-> selFiles]

FilesDSelection(selCats, selFiles, cat, rows, currentFile) ==
    IF currentFile.selectable
    THEN LET currentFiles == GetOrEmpty(selFiles, cat)
             dirFiles == DirFiles(rows, currentFile)
             allDirSelected == dirFiles \subseteq currentFiles
             newSelected == IF allDirSelected THEN currentFiles \ dirFiles
                            ELSE currentFiles \cup dirFiles
         IN [cats |-> selCats, files |-> MapSet(selFiles, cat, newSelected)]
    ELSE [cats |-> selCats, files |-> selFiles]

FilesD ==
    /\ InFilesPane
    /\ LET sel == FilesDSelection(selectedCategories, selectedFilesByCategory,
                                  activeCategory, activeGroupedFiles,
                                  RowAt(activeGroupedFiles, activeFileCaret))
       IN /\ selectedCategories' = sel.cats
          /\ selectedFilesByCategory' = sel.files
    /\ UNCHANGED <<inputs, activePane, categoryCaret, categoryFilePickerStates, afterPicker>>

\* Variant of FilesISelection: the category is never removed.
FilesISelection_NeverRemoves(rs, selCats, selFiles, cat) ==
    LET currentFiles == GetOrEmpty(selFiles, cat)
        allFiles == AllFilePaths(ResultOf(rs, cat))
        newSelected == (currentFiles \ allFiles) \cup (allFiles \ currentFiles)
        hasAnySelected == allFiles \ currentFiles # {}
        newCategories == IF hasAnySelected THEN selCats \cup {cat} ELSE selCats
    IN [cats |-> newCategories, files |-> MapSet(selFiles, cat, newSelected)]

\* Variant of FilesISelection: the category follows the first file only.
FilesISelection_OnlyWhenAllFlipOn(rs, selCats, selFiles, cat) ==
    LET currentFiles == GetOrEmpty(selFiles, cat)
        allFiles == AllFilePaths(ResultOf(rs, cat))
        newSelected == (currentFiles \ allFiles) \cup (allFiles \ currentFiles)
        hasAnySelected == allFiles \cap currentFiles = {}
        newCategories == IF hasAnySelected THEN selCats \cup {cat}
                         ELSE IF newSelected = {} THEN selCats \ {cat}
                         ELSE selCats
    IN [cats |-> newCategories, files |-> MapSet(selFiles, cat, newSelected)]

\* i over ALL files of categoryResult.items
FilesISelection(rs, selCats, selFiles, cat) ==
    LET currentFiles == GetOrEmpty(selFiles, cat)
        allFiles == AllFilePaths(ResultOf(rs, cat))
        newSelected == (currentFiles \ allFiles) \cup (allFiles \ currentFiles)
        hasAnySelected == allFiles \ currentFiles # {}
        newCategories == IF hasAnySelected THEN selCats \cup {cat}
                         ELSE IF newSelected = {} THEN selCats \ {cat}
                         ELSE selCats
    IN [cats |-> newCategories, files |-> MapSet(selFiles, cat, newSelected)]

FilesI ==
    /\ InFilesPane
    /\ IF activeCategory \in CategoryIds(results)
       THEN LET sel == FilesISelection(results, selectedCategories,
                                       selectedFilesByCategory, activeCategory)
            IN /\ selectedCategories' = sel.cats
               /\ selectedFilesByCategory' = sel.files
       ELSE UNCHANGED <<selectedCategories, selectedFilesByCategory>>
    /\ UNCHANGED <<inputs, activePane, categoryCaret, categoryFilePickerStates, afterPicker>>

\* Variant of ExpandedLimits: the increment is added to the default limit.
ExpandedLimits_FromDefault(pickerState, directoryKey) ==
    MapSet(pickerState.dirExpandLimits, directoryKey,
           DIR_VIS_CHILD_LIMIT + EXPAND_INCREMENT)

\* m, and right on an expand-hint row: currentLimit + EXPAND_INCREMENT
ExpandedLimits(pickerState, directoryKey) ==
    LET currentLimit == IF directoryKey \in DOMAIN pickerState.dirExpandLimits
                        THEN pickerState.dirExpandLimits[directoryKey]
                        ELSE DIR_VIS_CHILD_LIMIT
    IN MapSet(pickerState.dirExpandLimits, directoryKey, currentLimit + EXPAND_INCREMENT)

\* Variant of CollapsedLimits: h takes back one expansion only.
CollapsedLimits_OneStepBack(pickerState, directoryKey) ==
    MapSet(pickerState.dirExpandLimits, directoryKey,
           IF directoryKey \in DOMAIN pickerState.dirExpandLimits
              /\ pickerState.dirExpandLimits[directoryKey] > DIR_VIS_CHILD_LIMIT + EXPAND_INCREMENT
           THEN pickerState.dirExpandLimits[directoryKey] - EXPAND_INCREMENT
           ELSE DIR_VIS_CHILD_LIMIT)

\* h: back to the default limit
CollapsedLimits(pickerState, directoryKey) ==
    MapSet(pickerState.dirExpandLimits, directoryKey, DIR_VIS_CHILD_LIMIT)

\* The model stops expanding a directory after MaxExpands expansions
\* (MaxDeepExpands in ScenarioDeep).
WithinExpandBound(limits) ==
    LET expands == IF results = ScenarioDeep THEN MaxDeepExpands ELSE MaxExpands
    IN \A d \in DOMAIN limits :
           limits[d] <= DIR_VIS_CHILD_LIMIT + expands * EXPAND_INCREMENT

FilesM ==
    /\ InFilesPane
    /\ LET currentFile == RowAt(activeGroupedFiles, activeFileCaret)
           pickerState == getPickerState(categoryFilePickerStates, activeCategory)
       IN IF currentFile.directoryKey # <<>>
          THEN /\ WithinExpandBound(ExpandedLimits(pickerState, currentFile.directoryKey))
               /\ categoryFilePickerStates' =
                     updatePickerState(categoryFilePickerStates, activeCategory,
                         [dirExpandLimits |->
                             ExpandedLimits(pickerState, currentFile.directoryKey)])
          ELSE UNCHANGED categoryFilePickerStates
    /\ UNCHANGED <<inputs, activePane, categoryCaret, selectedCategories,
                   selectedFilesByCategory, afterPicker>>

\* Variant of FilesH: collapsing a directory also deselects the category's
\* files.
FilesH_DropsSelection ==
    /\ InFilesPane
    /\ LET currentFile == RowAt(activeGroupedFiles, activeFileCaret)
           pickerState == getPickerState(categoryFilePickerStates, activeCategory)
       IN /\ categoryFilePickerStates' =
               IF currentFile.directoryKey # <<>>
               THEN updatePickerState(categoryFilePickerStates, activeCategory,
                        [dirExpandLimits |->
                            CollapsedLimits(pickerState, currentFile.directoryKey)])
               ELSE categoryFilePickerStates
          /\ selectedFilesByCategory' =
               IF currentFile.directoryKey # <<>>
               THEN MapSet(selectedFilesByCategory, activeCategory, {})
               ELSE selectedFilesByCategory
    /\ UNCHANGED <<inputs, activePane, categoryCaret, selectedCategories, afterPicker>>

FilesH ==
    /\ InFilesPane
    /\ LET currentFile == RowAt(activeGroupedFiles, activeFileCaret)
           pickerState == getPickerState(categoryFilePickerStates, activeCategory)
       IN categoryFilePickerStates' =
             IF currentFile.directoryKey # <<>>
             THEN updatePickerState(categoryFilePickerStates, activeCategory,
                      [dirExpandLimits |->
                          CollapsedLimits(pickerState, currentFile.directoryKey)])
             ELSE categoryFilePickerStates
    /\ UNCHANGED <<inputs, activePane, categoryCaret, selectedCategories,
                   selectedFilesByCategory, afterPicker>>

FilesRight ==
    /\ InFilesPane
    /\ LET currentFile == RowAt(activeGroupedFiles, activeFileCaret)
           pickerState == getPickerState(categoryFilePickerStates, activeCategory)
       IN IF currentFile.type = "expand-hint" /\ currentFile.directoryKey # <<>>
          THEN /\ WithinExpandBound(ExpandedLimits(pickerState, currentFile.directoryKey))
               /\ categoryFilePickerStates' =
                     updatePickerState(categoryFilePickerStates, activeCategory,
                         [dirExpandLimits |->
                             ExpandedLimits(pickerState, currentFile.directoryKey)])
          ELSE UNCHANGED categoryFilePickerStates
    /\ UNCHANGED <<inputs, activePane, categoryCaret, selectedCategories,
                   selectedFilesByCategory, afterPicker>>

\* Variant of FilesLeft: the pane changes and the active flag stays.
FilesLeft_KeepsActive ==
    /\ InFilesPane
    /\ activePane' = "categories"
    /\ UNCHANGED <<inputs, categoryCaret, selectedCategories, selectedFilesByCategory,
                   categoryFilePickerStates, afterPicker>>

\* left / backspace
FilesLeft ==
    /\ InFilesPane
    /\ categoryFilePickerStates' = setActiveCategory(categoryFilePickerStates, NoCategory)
    /\ activePane' = "categories"
    /\ UNCHANGED <<inputs, categoryCaret, selectedCategories, selectedFilesByCategory,
                   afterPicker>>

\* ------------------------------------------------------------------------
\* interactive.ts, selectItemsInteractively after the prompt resolved
\* ------------------------------------------------------------------------
\* result.items.filter((i) => selectedFilesForCategory.has(i.path))
FilterItems(items, selectedFilesForCategory) ==
    SelectSeq(items, LAMBDA i : i.path \in selectedFilesForCategory)

\* Variant of SelectedEntry: a file-selection category hands over all items.
SelectedEntry_AllItems(result, fsCats, selFiles) ==
    LET categoryId == result.category.id
    IN IF categoryId \in fsCats
       THEN IF categoryId \in DOMAIN selFiles /\ selFiles[categoryId] # {}
            THEN << [categoryId |-> categoryId, items |-> result.items] >>
            ELSE <<>>
       ELSE << [categoryId |-> categoryId, items |-> result.items] >>

\* The entry pushed for one selected result: <<>> when it is skipped.
SelectedEntry(result, fsCats, selFiles) ==
    LET categoryId == result.category.id
    IN IF categoryId \in fsCats
       THEN IF categoryId \in DOMAIN selFiles /\ selFiles[categoryId] # {}
            THEN LET selectedItemsList == FilterItems(result.items, selFiles[categoryId])
                 IN IF Len(selectedItemsList) > 0
                    THEN << [categoryId |-> categoryId, items |-> selectedItemsList] >>
                    ELSE <<>>
            ELSE <<>>
       ELSE << [categoryId |-> categoryId, items |-> result.items] >>

RECURSIVE CollectSelectedItems(_, _, _)
CollectSelectedItems(selectedResults, fsCats, selFiles) ==
    IF selectedResults = <<>> THEN <<>>
    ELSE SelectedEntry(Head(selectedResults), fsCats, selFiles)
         \o CollectSelectedItems(Tail(selectedResults), fsCats, selFiles)

SelectItems ==
    /\ pc = "picked"
    /\ LET selectedResults ==
               SelectSeq(results,
                         LAMBDA r : r.category.id \in filePickerResult.selectedCategories)
       IN selectedItems' =
             CollectSelectedItems(selectedResults, categoriesWithFileSelection,
                                  filePickerResult.selectedFilesByCategory)
    /\ pc' = "selected"
    /\ UNCHANGED <<inputs, activePane, categoryCaret, selectedCategories,
                   selectedFilesByCategory, categoryFilePickerStates, filePickerResult,
                   afterSelection>>

\* ------------------------------------------------------------------------
\* Specification
\* ------------------------------------------------------------------------
\* No call of groupFilesByDirectory is looked at on its own
NoGrouping ==
    /\ groupFiles = <<>>
    /\ groupLimits = EmptyMap
    /\ displayItems = <<>>
    /\ grouped = FALSE

NoWindowInput == [active |-> FALSE, fileCaret |-> 0, length |-> 0]

NoFileWindow == [fileStart |-> 0, fileEnd |-> 0, rendered |-> FALSE]

NoWindow ==
    /\ windowInput = NoWindowInput
    /\ fileWindow = NoFileWindow

NoScan ==
    /\ tasks = <<>>
    /\ concurrency = 0
    /\ taskResults = <<>>
    /\ executing = {}
    /\ scanIndex = 0
    /\ promises = <<>>
    /\ chain = <<>>
    /\ starts = <<>>
    /\ awaiting = {}
    /\ scanPc = "idle"
    /\ scanSummary = <<>>

\* useState<string | null>(null), useRef<NodeJS.Timeout | null>(null)
NoCopy ==
    /\ copyStatus = <<>>
    /\ copyTimeoutRef = "null"
    /\ timers = 0
    /\ clipboard = <<>>

Init ==
    /\ results \in Scenarios
    /\ categoriesWithFileSelection = FileSelectionCategories(results, FALSE)
    /\ activePane = "categories"
    /\ categoryCaret = 0
    /\ selectedCategories = {}
    /\ selectedFilesByCategory = EmptyMap
    /\ categoryFilePickerStates = EmptyMap
    /\ pc = "picker"
    /\ filePickerResult = NoResult
    /\ selectedItems = <<>>
    /\ summary = results
    /\ options = [includeRisky |-> FALSE, filePicker |-> FALSE]
    /\ proceed = "unasked"
    /\ cleanCalls = <<>>
    /\ returned = "none"
    /\ NoGrouping
    /\ NoCopy
    /\ NoWindow
    /\ NoScan

Next ==
    \/ KeyEnter
    \/ CatUp
    \/ CatDown
    \/ CatSpace
    \/ CatA
    \/ CatI
    \/ CatRight
    \/ FilesUp
    \/ FilesDown
    \/ FilesSpace
    \/ FilesA
    \/ FilesD
    \/ FilesI
    \/ FilesM
    \/ FilesH
    \/ FilesRight
    \/ FilesLeft
    \/ SelectItems

Spec == Init /\ [][Next]_vars

\* ------------------------------------------------------------------------
\* commands/interactive.ts: interactiveCommand around the picker
\* ------------------------------------------------------------------------
\* What runAllScans can resolve with.  A risky category with files behind the
\* expand hint, a safe one and an empty one:
ScanMixed ==
    << ScanResult("large-files", "risky", TRUE,
                  << Item("a", "f1", 30), Item("a", "f2", 60), Item("a", "f3", 10),
                     Item("a", "f4", 50), Item("a", "f5", 20), Item("a", "f6", 40) >>),
       ScanResult("trash", "safe", FALSE, << Item("t", "g1", 5) >>),
       ScanResult("temp-files", "safe", FALSE, <<>>) >>

\* only a risky category has items:
ScanRiskyOnly ==
    << ScanResult("large-files", "risky", TRUE, << Item("d", "f3", 70) >>),
       ScanResult("temp-files", "safe", FALSE, <<>>) >>

\* nothing was found:
ScanNothing ==
    << ScanResult("trash", "safe", FALSE, <<>>),
       ScanResult("temp-files", "safe", FALSE, <<>>) >>

\* two safe categories with one item each, one of them with file selection:
ScanSmall ==
    << ScanResult("trash", "safe", FALSE, << Item("t", "g1", 5) >>),
       ScanResult("downloads", "safe", TRUE, << Item("b", "f1", 10) >>) >>

\* The runs of the command: a scan and the options of the command line.  The
\* option that gives every category the file picker is taken on the small
\* scans.
CommandRuns ==
    ({ScanMixed} \X {[includeRisky |-> b, filePicker |-> FALSE] : b \in BOOLEAN})
    \cup ({ScanRiskyOnly, ScanNothing, ScanSmall}
             \X [includeRisky : BOOLEAN, filePicker : BOOLEAN])

RECURSIVE ItemsSize(_)
ItemsSize(items) ==
    IF items = <<>> THEN 0 ELSE Head(items).size + ItemsSize(Tail(items))

\* summary.totalSize: results.reduce((sum, r) => sum + r.totalSize, 0), the
\* totalSize of a result being the size of its items
RECURSIVE TotalSize(_)
TotalSize(rs) ==
    IF rs = <<>> THEN 0 ELSE ItemsSize(Head(rs).items) + TotalSize(Tail(rs))

\* summary.results.filter((r) => r.items.length > 0)
ResultsWithItems(rs) == SelectSeq(rs, LAMBDA r : Len(r.items) > 0)

riskyResults(rs) ==
    SelectSeq(ResultsWithItems(rs), LAMBDA r : r.category.safetyLevel = "risky")

safeResults(rs) ==
    SelectSeq(ResultsWithItems(rs), LAMBDA r : r.category.safetyLevel # "risky")

\* Variant of PickerResults: the risky results are listed but not hidden.
PickerResults_KeepsRisky(rs, includeRisky) == ResultsWithItems(rs)

\* resultsWithItems as it is handed to selectItemsInteractively
PickerResults(rs, includeRisky) ==
    IF ~includeRisky /\ Len(riskyResults(rs)) > 0
    THEN safeResults(rs)
    ELSE ResultsWithItems(rs)

\* From the resolution of runAllScans to the opening of the picker
FilterResults ==
    /\ pc = "scanned"
    /\ LET resultsWithItems == PickerResults(summary, options.includeRisky)
       IN IF TotalSize(summary) = 0 \/ Len(resultsWithItems) = 0
          THEN /\ pc' = "returned"
               /\ returned' = "null"
               /\ UNCHANGED <<results, categoriesWithFileSelection>>
          ELSE /\ pc' = "picker"
               /\ results' = resultsWithItems
               /\ categoriesWithFileSelection' =
                     FileSelectionCategories(resultsWithItems, options.filePicker)
               /\ UNCHANGED returned
    /\ UNCHANGED <<summary, options, activePane, categoryCaret, selectedCategories,
                   selectedFilesByCategory, categoryFilePickerStates,
                   filePickerResult, selectedItems, proceed, cleanCalls, grouping, copy,
                   window, scan>>

picker == <<activePane, categoryCaret, selectedCategories, selectedFilesByCategory,
            categoryFilePickerStates>>

\* Variant of PickerAbort: the interrupted prompt resolves with the selection
\* made so far.
PickerAbort_ResolvesWithSelection ==
    /\ pc = "picker"
    /\ filePickerResult' = [selectedCategories |-> selectedCategories,
                            selectedFilesByCategory |-> selectedFilesByCategory,
                            confirmed |-> TRUE]
    /\ pc' = "picked"
    /\ UNCHANGED <<inputs, picker, selectedItems, afterSelection>>

\* The picker prompt rejects (ExitPromptError on an interrupt): nothing in
\* interactive.ts catches it, the default action's catch hands it to
\* handleCleanExit, which ends the process.
PickerAbort ==
    /\ pc = "picker"
    /\ pc' = "exited"
    /\ UNCHANGED <<inputs, picker, filePickerResult, selectedItems, afterSelection>>

\* The prompt has resolved and its hook state is gone: from here on the
\* prompt's state reads as that of a prompt never opened.
PickerClosed ==
    /\ activePane' = "categories"
    /\ categoryCaret' = 0
    /\ selectedCategories' = {}
    /\ selectedFilesByCategory' = EmptyMap
    /\ categoryFilePickerStates' = EmptyMap

\* if (selectedItems.length === 0) return null; otherwise the confirm prompt
CheckSelection ==
    /\ pc = "selected"
    /\ IF Len(selectedItems) = 0
       THEN pc' = "returned" /\ returned' = "null"
       ELSE pc' = "confirm" /\ UNCHANGED returned
    /\ PickerClosed
    /\ UNCHANGED <<inputs, filePickerResult, selectedItems, proceed, cleanCalls>>

\* Variant of Confirm: the answer is shown but cleaning goes on.
Confirm_IgnoresAnswer ==
    /\ pc = "confirm"
    /\ \E answer \in BOOLEAN :
          proceed' = (IF answer THEN "yes" ELSE "no")
    /\ pc' = "cleaning"
    /\ UNCHANGED <<inputs, picker, filePickerResult, selectedItems, cleanCalls, returned>>

\* const proceed = await confirm(...); if (!proceed) return null
Confirm ==
    /\ pc = "confirm"
    /\ \E answer \in BOOLEAN :
          /\ proceed' = (IF answer THEN "yes" ELSE "no")
          /\ IF answer
             THEN pc' = "cleaning" /\ UNCHANGED returned
             ELSE pc' = "returned" /\ returned' = "null"
    /\ UNCHANGED <<inputs, picker, filePickerResult, selectedItems, cleanCalls>>

\* The confirm prompt rejects the same way.
ConfirmAbort ==
    /\ pc = "confirm"
    /\ pc' = "exited"
    /\ UNCHANGED <<inputs, picker, filePickerResult, selectedItems, afterSelection>>

\* One turn of the loop: await scanner.clean(items) for the next entry
Clean ==
    /\ pc = "cleaning"
    /\ Len(cleanCalls) < Len(selectedItems)
    /\ cleanCalls' = Append(cleanCalls, selectedItems[Len(cleanCalls) + 1])
    /\ UNCHANGED <<inputs, picker, pc, filePickerResult, selectedItems, proceed, returned>>

\* The loop is over: return cleanResults
Finish ==
    /\ pc = "cleaning"
    /\ Len(cleanCalls) = Len(selectedItems)
    /\ pc' = "returned"
    /\ returned' = "summary"
    /\ UNCHANGED <<inputs, picker, filePickerResult, selectedItems, proceed, cleanCalls>>

InitCommand ==
    /\ \E run \in CommandRuns : summary = run[1] /\ options = run[2]
    /\ pc = "scanned"
    /\ results = <<>>
    /\ categoriesWithFileSelection = {}
    /\ activePane = "categories"
    /\ categoryCaret = 0
    /\ selectedCategories = {}
    /\ selectedFilesByCategory = EmptyMap
    /\ categoryFilePickerStates = EmptyMap
    /\ filePickerResult = NoResult
    /\ selectedItems = <<>>
    /\ proceed = "unasked"
    /\ cleanCalls = <<>>
    /\ returned = "none"
    /\ NoGrouping
    /\ NoCopy
    /\ NoWindow
    /\ NoScan

NextCommand ==
    \/ FilterResults
    \/ Next
    \/ PickerAbort
    \/ CheckSelection
    \/ Confirm
    \/ ConfirmAbort
    \/ Clean
    \/ Finish

SpecCommand == InitCommand /\ [][NextCommand]_vars

\* ------------------------------------------------------------------------
\* utils/grouping.ts: one call of groupFilesByDirectory on its own
\* ------------------------------------------------------------------------
\* Most files an argument enumerated from GroupingItems holds
MaxGroupFiles == 3

\* Items of three directories, with equal sizes inside a directory and
\* equal largest sizes across directories
GroupingItems ==
    {Item("a", "f1", 30), Item("a", "f2", 10), Item("a", "f3", 30),
     Item("b", "g1", 20), Item("b", "g2", 40), Item("c", "h1", 30)}

\* The arrays of at most n distinct members of S, in every order
ArraysOf(S, n) ==
    UNION {{s \in [1..k -> S] : \A i, j \in 1..k : i # j => s[i] # s[j]} : k \in 0..n}

Reversed(s) == [i \in 1..Len(s) |-> s[Len(s) + 1 - i]]

\* The files arguments: every short array, and six files of one directory
\* (more than the default limit shows) in two orders
GroupingFiles ==
    ArraysOf(GroupingItems, MaxGroupFiles)
    \cup {ScenarioHidden[1].items, Reversed(ScenarioHidden[1].items)}

\* The dirExpandLimits arguments: overrides for any of two directories
GroupingLimits ==
    UNION {[D -> {1, 2, 15}] : D \in SUBSET {<<"a">>, <<"b">>}}

InitGrouping ==
    /\ groupFiles \in GroupingFiles
    /\ groupLimits \in GroupingLimits
    /\ displayItems = <<>>
    /\ grouped = FALSE
    /\ pc = "grouping"
    /\ results = <<>>
    /\ categoriesWithFileSelection = {}
    /\ activePane = "categories"
    /\ categoryCaret = 0
    /\ selectedCategories = {}
    /\ selectedFilesByCategory = EmptyMap
    /\ categoryFilePickerStates = EmptyMap
    /\ filePickerResult = NoResult
    /\ selectedItems = <<>>
    /\ summary = <<>>
    /\ options = [includeRisky |-> FALSE, filePicker |-> FALSE]
    /\ proceed = "unasked"
    /\ cleanCalls = <<>>
    /\ returned = "none"
    /\ NoCopy
    /\ NoWindow
    /\ NoScan

\* displayItems = groupFilesByDirectory(files, absolutePaths, dirExpandLimits)
GroupFiles ==
    /\ pc = "grouping"
    /\ ~grouped
    /\ displayItems' = groupFilesByDirectory(groupFiles, groupLimits)
    /\ grouped' = TRUE
    /\ UNCHANGED <<groupFiles, groupLimits, summary, options, results,
                   categoriesWithFileSelection, picker, afterPicker, copy, window,
                   scan>>

NextGrouping == GroupFiles

SpecGrouping == InitGrouping /\ [][NextGrouping]_vars

\* ------------------------------------------------------------------------
\* The picker's caret and expand commands on their own.  The display rows
\* and the carets depend on results and on dirExpandLimits only, which no
\* selection command writes, so these commands reach here every caret and
\* row sequence they reach next to the selection commands.
\* ------------------------------------------------------------------------
NavigationScenarios == {ScenarioDeep, ScenarioHidden}

InitNavigation ==
    /\ results \in NavigationScenarios
    /\ categoriesWithFileSelection = FileSelectionCategories(results, FALSE)
    /\ activePane = "categories"
    /\ categoryCaret = 0
    /\ selectedCategories = {}
    /\ selectedFilesByCategory = EmptyMap
    /\ categoryFilePickerStates = EmptyMap
    /\ pc = "picker"
    /\ filePickerResult = NoResult
    /\ selectedItems = <<>>
    /\ summary = results
    /\ options = [includeRisky |-> FALSE, filePicker |-> FALSE]
    /\ proceed = "unasked"
    /\ cleanCalls = <<>>
    /\ returned = "none"
    /\ NoGrouping
    /\ NoCopy
    /\ NoWindow
    /\ NoScan

NextNavigation ==
    \/ CatUp
    \/ CatDown
    \/ CatRight
    \/ FilesUp
    \/ FilesDown
    \/ FilesM
    \/ FilesH
    \/ FilesRight
    \/ FilesLeft

SpecNavigation == InitNavigation /\ [][NextNavigation]_vars

\* ------------------------------------------------------------------------
\* Vocabulary of the claims
\* ------------------------------------------------------------------------
LargeFiles == "large-files"
Downloads == "downloads"
Trash == "trash"

\* The row under the caret of the active category
caretRow == RowAt(activeGroupedFiles, activeFileCaret)

\* The selected-file set of a category, empty when it has no entry
SelectedFilesOf(cat) == GetOrEmpty(selectedFilesByCategory, cat)

\* All underlying items of a category, and those of one directory
ItemPaths(cat) == AllFilePaths(ResultOf(results, cat))

ItemPathsInDir(cat, dir) == {p \in ItemPaths(cat) : Dirname(p) = dir}

HiddenPaths(cat) ==
    ItemPaths(cat) \ {activeGroupedFiles[i].item.path :
                         i \in {j \in 1..Len(activeGroupedFiles) :
                                   activeGroupedFiles[j].type = "file"}}

\* ------------------------------------------------------------------------
\* C1: space in the files pane acts only on a file row and then toggles
\* exactly that path in the active category's selected-file set; toggling on
\* puts the category in selectedCategories, toggling off removes it exactly
\* when the set becomes empty; on a non-file row space changes nothing.
\* ------------------------------------------------------------------------
C1_SpaceTogglesCaretFile ==
    [][FilesSpace =>
        LET cat == activeCategory
            old == SelectedFilesOf(cat)
        IN IF caretRow.type = "file"
           THEN LET p == caretRow.item.path
                    new == IF p \in old THEN old \ {p} ELSE old \cup {p}
                IN /\ selectedFilesByCategory' = MapSet(selectedFilesByCategory, cat, new)
                   /\ p \notin old => selectedCategories' = selectedCategories \cup {cat}
                   /\ (p \in old /\ new = {}) =>
                          selectedCategories' = selectedCategories \ {cat}
                   /\ (p \in old /\ new # {}) =>
                          selectedCategories' = selectedCategories
           ELSE UNCHANGED vars]_vars

\* A single file of large-files was toggled on (no bulk command yields a
\* one-file set of a visible row), and the caret now rests on the expand hint.
C1_Witness ==
    /\ pc = "picker" /\ activePane = "files" /\ activeCategory = LargeFiles
    /\ SelectedFilesOf(LargeFiles) = {<<"a", "f2">>}
    /\ LargeFiles \in selectedCategories
    /\ caretRow.type = "expand-hint"

\* ------------------------------------------------------------------------
\* C2: d in the files pane never changes selectedCategories, also when it
\* empties or completes the active category's selected-file set.
\* ------------------------------------------------------------------------
C2_DirToggleKeepsCategories ==
    [][FilesD => selectedCategories' = selectedCategories]_vars

\* large-files is still selected although its file set was emptied: only d
\* leaves that behind.
C2_Witness ==
    /\ pc = "picker" /\ activePane = "files" /\ activeCategory = LargeFiles
    /\ LargeFiles \in selectedCategories
    /\ LargeFiles \in DOMAIN selectedFilesByCategory
    /\ selectedFilesByCategory[LargeFiles] = {}

\* ------------------------------------------------------------------------
\* C3: d on a file row toggles every underlying item of the active category
\* whose parent directory is the caret row's directory, whatever the expand
\* limit, items hidden behind the expand hint included; other directories
\* are untouched.
\* ------------------------------------------------------------------------
C3_DirToggleCoversWholeDirectory ==
    [][(FilesD /\ caretRow.type = "file") =>
        LET cat == activeCategory
            old == SelectedFilesOf(cat)
            dirItems == ItemPathsInDir(cat, caretRow.directoryKey)
        IN SelectedFilesOf(cat)' =
              IF dirItems \subseteq old THEN old \ dirItems ELSE old \cup dirItems]_vars

\* What d does: the same toggle over the directory's file rows on display.
C3_DirToggleCoversVisibleRows ==
    [][(FilesD /\ caretRow.type = "file") =>
        LET cat == activeCategory
            old == SelectedFilesOf(cat)
            shown == ItemPathsInDir(cat, caretRow.directoryKey) \ HiddenPaths(cat)
        IN SelectedFilesOf(cat)' =
              IF shown \subseteq old THEN old \ shown ELSE old \cup shown]_vars

\* ------------------------------------------------------------------------
\* C4: for every category that supports file selection, the category is in
\* selectedCategories if and only if its selected-file set is non-empty.
\* ------------------------------------------------------------------------
Coupled ==
    \A cat \in categoriesWithFileSelection \cap CategoryIds(results) :
        cat \in selectedCategories <=> SelectedFilesOf(cat) # {}

\* As claimed: in every reachable state.
C4_CoupledInEveryState == Coupled

\* Every picker command but d of the files pane
CommandOtherThanD ==
    \/ CatUp \/ CatDown \/ CatSpace \/ CatA \/ CatI \/ CatRight
    \/ FilesUp \/ FilesDown \/ FilesSpace \/ FilesA \/ FilesI
    \/ FilesM \/ FilesH \/ FilesRight \/ FilesLeft \/ KeyEnter

\* As amended: the equivalence holds in the initial state and every picker
\* command other than d of the files pane preserves it.
C4_CoupledKeptByAllButD ==
    [][(Coupled /\ CommandOtherThanD) => Coupled']_vars

\* downloads holds one of its two files and is selected, large-files holds
\* none and is not.
C4_Witness ==
    /\ pc = "picker" /\ activePane = "files" /\ activeCategory = Downloads
    /\ SelectedFilesOf(Downloads) = {<<"c", "f2">>}
    /\ selectedCategories = {Downloads}
    /\ Coupled

\* ------------------------------------------------------------------------
\* C5: a in the files pane works on all underlying items of the active
\* category, whatever is on display: if every item is selected they are all
\* removed and the category leaves selectedCategories, otherwise every item
\* becomes selected and the category joins selectedCategories.
\* ------------------------------------------------------------------------
C5_FilesSelectAll ==
    [][FilesA =>
        LET cat == activeCategory
            all == ItemPaths(cat)
        IN IF all \subseteq SelectedFilesOf(cat)
           THEN /\ SelectedFilesOf(cat)' \cap all = {}
                /\ selectedCategories' = selectedCategories \ {cat}
           ELSE /\ all \subseteq SelectedFilesOf(cat)'
                /\ selectedCategories' = selectedCategories \cup {cat}]_vars

\* All six files of large-files are selected while one of them is hidden
\* behind the expand hint.
C5_Witness ==
    /\ pc = "picker" /\ activePane = "files" /\ activeCategory = LargeFiles
    /\ HiddenPaths(LargeFiles) = {<<"a", "f3">>}
    /\ SelectedFilesOf(LargeFiles) = ItemPaths(LargeFiles)
    /\ LargeFiles \in selectedCategories

\* ------------------------------------------------------------------------
\* C6: i in the files pane flips the membership of every underlying item of
\* the active category; afterwards the category is in selectedCategories if
\* the resulting set is non-empty and out of it if the set is empty.
\* ------------------------------------------------------------------------
C6_FilesInvert ==
    [][FilesI =>
        LET cat == activeCategory
            all == ItemPaths(cat)
            old == SelectedFilesOf(cat)
        IN /\ \A p \in all : (p \in SelectedFilesOf(cat)') <=> (p \notin old)
           /\ SelectedFilesOf(cat)' # {} => cat \in selectedCategories'
           /\ SelectedFilesOf(cat)' = {} => cat \notin selectedCategories']_vars

\* Only the hidden file of large-files is selected: the inverse of the five
\* rows on display.
C6_Witness ==
    /\ pc = "picker" /\ activePane = "files" /\ activeCategory = LargeFiles
    /\ HiddenPaths(LargeFiles) = {<<"a", "f3">>}
    /\ SelectedFilesOf(LargeFiles) = {<<"a", "f3">>}
    /\ LargeFiles \in selectedCategories

\* ------------------------------------------------------------------------
\* C7: deselecting a selected category with space in the category pane
\* removes it from selectedCategories and, if it supports file selection,
\* leaves its selected-file set empty whatever it held.
\* ------------------------------------------------------------------------
C7_CategoryDeselectClearsFiles ==
    [][(CatSpace /\ currentResult.category.id \in selectedCategories) =>
        LET cat == currentResult.category.id
        IN /\ selectedCategories' = selectedCategories \ {cat}
           /\ cat \in categoriesWithFileSelection => SelectedFilesOf(cat)' = {}]_vars

\* large-files was deselected in the category pane: its entry is there and
\* empty, and its file list was hidden.
C7_Witness ==
    /\ pc = "picker" /\ activePane = "categories"
    /\ currentResult.category.id = LargeFiles
    /\ LargeFiles \notin selectedCategories
    /\ LargeFiles \in DOMAIN selectedFilesByCategory
    /\ selectedFilesByCategory[LargeFiles] = {}
    /\ LargeFiles \in DOMAIN categoryFilePickerStates
    /\ ~categoryFilePickerStates[LargeFiles].visible

\* ------------------------------------------------------------------------
\* C8: selecting an unselected category with space in the category pane adds
\* it to selectedCategories and, if it supports file selection, sets its
\* selected-file set to exactly the paths of all of its scanned items.
\* ------------------------------------------------------------------------
C8_CategorySelectTakesAllFiles ==
    [][(CatSpace /\ currentResult.category.id \notin selectedCategories) =>
        LET cat == currentResult.category.id
        IN /\ selectedCategories' = selectedCategories \cup {cat}
           /\ cat \in categoriesWithFileSelection =>
                 /\ cat \in DOMAIN selectedFilesByCategory'
                 /\ selectedFilesByCategory'[cat] = ItemPaths(cat)]_vars

\* downloads alone is selected, with both of its files, from the category
\* pane, its file list shown.
C8_Witness ==
    /\ pc = "picker" /\ activePane = "categories"
    /\ currentResult.category.id = Downloads
    /\ selectedCategories = {Downloads}
    /\ SelectedFilesOf(Downloads) = ItemPaths(Downloads)
    /\ Downloads \in DOMAIN categoryFilePickerStates
    /\ categoryFilePickerStates[Downloads].visible

\* ------------------------------------------------------------------------
\* C9: a command scoped to one category X (space on X in the category pane;
\* space, a, i, d in the files pane while X is active) leaves the membership
\* in selectedCategories and the selected-file set of every other category
\* unchanged.
\* ------------------------------------------------------------------------
ScopedCommand == CatSpace \/ FilesSpace \/ FilesA \/ FilesI \/ FilesD

ScopeOfCommand ==
    IF activePane = "categories" THEN currentResult.category.id ELSE activeCategory

C9_CrossCategoryIsolation ==
    [][ScopedCommand =>
        \A other \in CategoryIds(results) \ {ScopeOfCommand} :
            /\ (other \in selectedCategories') <=> (other \in selectedCategories)
            /\ (other \in DOMAIN selectedFilesByCategory')
                   <=> (other \in DOMAIN selectedFilesByCategory)
            /\ SelectedFilesOf(other)' = SelectedFilesOf(other)]_vars

\* large-files keeps its file while downloads, the category in scope, was
\* deselected in the category pane.
C9_Witness ==
    /\ pc = "picker" /\ activePane = "categories"
    /\ currentResult.category.id = Downloads
    /\ Downloads \in DOMAIN selectedFilesByCategory
    /\ selectedFilesByCategory[Downloads] = {}
    /\ selectedCategories = {LargeFiles}
    /\ SelectedFilesOf(LargeFiles) = {<<"d", "f3">>}

\* ------------------------------------------------------------------------
\* C10: after confirm the cleaner is handed, for each category of the
\* returned selectedCategories: all of its scanned items when it does not
\* support file selection; exactly the scanned items whose path is in its
\* selected-file set when it does; no entry when that set is empty or
\* absent; and nothing for a category outside selectedCategories.
\* ------------------------------------------------------------------------
EntriesFor(id) ==
    {i \in 1..Len(selectedItems) : selectedItems[i].categoryId = id}

C10_HandedToCleaner ==
    pc = "selected" =>
        LET cats == filePickerResult.selectedCategories
            files == filePickerResult.selectedFilesByCategory
        IN /\ \A i \in 1..Len(selectedItems) : selectedItems[i].categoryId \in cats
           /\ \A id \in cats :
                 LET items == ResultOf(results, id).items
                     chosen == GetOrEmpty(files, id)
                 IN IF id \notin categoriesWithFileSelection
                    THEN /\ Cardinality(EntriesFor(id)) = 1
                         /\ \A i \in EntriesFor(id) : selectedItems[i].items = items
                    ELSE IF chosen = {}
                    THEN EntriesFor(id) = {}
                    ELSE /\ Cardinality(EntriesFor(id)) = 1
                         /\ \A i \in EntriesFor(id) :
                               /\ Range(selectedItems[i].items) =
                                     {it \in Range(items) : it.path \in chosen}
                               /\ Len(selectedItems[i].items) = Cardinality(chosen)

\* trash is handed over whole and large-files with two of its six files.
C10_Witness ==
    /\ pc = "selected"
    /\ filePickerResult.selectedCategories = {LargeFiles, Trash}
    /\ Len(selectedItems) = 2
    /\ selectedItems[1].categoryId = LargeFiles
    /\ Len(selectedItems[1].items) = 2
    /\ selectedItems[2].categoryId = Trash
    /\ Len(selectedItems[2].items) = 1

\* ------------------------------------------------------------------------
\* C11: enter can be pressed in either pane while the picker is open; it ends
\* the session and the value it returns holds selectedCategories and
\* selectedFilesByCategory exactly as they are at that moment, which the
\* keypress itself leaves as they were.
\* ------------------------------------------------------------------------
C11_EnterReturnsSelectionVerbatim ==
    /\ [](pc = "picker" => ENABLED KeyEnter)
    /\ [][KeyEnter =>
            /\ pc' = "picked"
            /\ filePickerResult'.selectedCategories = selectedCategories
            /\ filePickerResult'.selectedFilesByCategory = selectedFilesByCategory
            /\ UNCHANGED <<selectedCategories, selectedFilesByCategory>>]_vars

\* Enter pressed in the files pane with a selection that is not normalised: a
\* selected category whose file set is empty, next to one fully selected.
C11_Witness ==
    /\ pc = "picked"
    /\ activePane = "files"
    /\ filePickerResult.confirmed
    /\ filePickerResult.selectedCategories = {Downloads, LargeFiles}
    /\ Downloads \in DOMAIN filePickerResult.selectedFilesByCategory
    /\ filePickerResult.selectedFilesByCategory[Downloads] = {}
    /\ filePickerResult.selectedFilesByCategory[LargeFiles] = {<<"d", "f3">>}

C13_BulkCommandsSetEveryVisibleFlag ==
    [][Cardinality(categoriesWithFileSelection \cap CategoryIds(results)) >= 2 =>
        LET fsIds == categoriesWithFileSelection \cap CategoryIds(results)
            visibleAfter(c) == getPickerState(categoryFilePickerStates', c).visible
        IN /\ (CatA /\ ~(CategoryIds(results) \subseteq selectedCategories)) =>
                 \A c \in fsIds : visibleAfter(c)
           /\ CatI =>
                 \A c \in fsIds : visibleAfter(c) = (c \notin selectedCategories)]_vars

\* ------------------------------------------------------------------------
\* C14: i in the category pane flips the membership of every category in
\* selectedCategories; a category that supports file selection and becomes
\* selected gets all of its paths, one that becomes deselected ends with no
\* selected files.
\* ------------------------------------------------------------------------
C14_CategoryInvert ==
    [][CatI =>
        \A c \in CategoryIds(results) :
            /\ (c \in selectedCategories') = (c \notin selectedCategories)
            /\ (c \in categoriesWithFileSelection /\ c \notin selectedCategories) =>
                  /\ c \in DOMAIN selectedFilesByCategory'
                  /\ selectedFilesByCategory'[c] = ItemPaths(c)
            /\ (c \in categoriesWithFileSelection /\ c \in selectedCategories) =>
                  GetOrEmpty(selectedFilesByCategory', c) = {}]_vars

\* downloads was selected with space (its store entry exists), then i: it is
\* deselected and its map entry is gone, large-files is selected with its file.
C14_Witness ==
    /\ pc = "picker"
    /\ activePane = "categories"
    /\ selectedCategories = {LargeFiles}
    /\ DOMAIN selectedFilesByCategory = {LargeFiles}
    /\ selectedFilesByCategory[LargeFiles] = {<<"d", "f3">>}
    /\ Downloads \in DOMAIN categoryFilePickerStates
    /\ Downloads \in CategoryIds(results)

\* ------------------------------------------------------------------------
\* C15: pressing a twice in succession in the same pane
\* ------------------------------------------------------------------------
\* The selection a second a in the category pane leaves, given the state the
\* first a left
SecondCatA ==
    CatASelection(results, categoriesWithFileSelection,
                  selectedCategories', selectedFilesByCategory')

\* The same for the files pane; the first a leaves the pane and the active
\* category as they were
SecondFilesA ==
    FilesASelection(results, selectedCategories', selectedFilesByCategory',
                    activeCategory)

\* C15 (as claimed): from every reachable state, pressing a twice in
\* succession in the same pane (category pane, or files pane for the active
\* category) returns selectedCategories and selectedFilesByCategory to exactly
\* what they were before the first press.
C15_SelectAllTwiceRestoresAnyState ==
    [][/\ CatA => SecondCatA = [cats |-> selectedCategories,
                                files |-> selectedFilesByCategory]
       /\ FilesA => SecondFilesA = [cats |-> selectedCategories,
                                    files |-> selectedFilesByCategory]]_vars

\* cats / files hold the same selected categories and, for every category,
\* the same set of selected files as the current state
SameSelection(sel) ==
    /\ sel.cats = selectedCategories
    /\ \A c \in CategoryIds(results) : GetOrEmpty(sel.files, c) = SelectedFilesOf(c)

\* Nothing at all is selected, or every category is selected and every
\* category that supports file selection has all of its files
AllOrNothingSelected ==
    \/ /\ selectedCategories = {}
       /\ \A c \in CategoryIds(results) : SelectedFilesOf(c) = {}
    \/ /\ selectedCategories = CategoryIds(results)
       /\ \A c \in CategoryIds(results) \cap categoriesWithFileSelection :
             SelectedFilesOf(c) = ItemPaths(c)

\* The active category is unselected with no file, or selected with all files
ActiveAllOrNothingSelected ==
    \/ activeCategory \notin selectedCategories /\ SelectedFilesOf(activeCategory) = {}
    \/ activeCategory \in selectedCategories
          /\ SelectedFilesOf(activeCategory) = ItemPaths(activeCategory)

\* C15 (amended): a is a toggle between all and nothing.  Pressing a twice in
\* the category pane gives back the selected categories and every category's
\* selected-file set exactly when, before the first press, nothing was
\* selected or everything was; in the files pane exactly when the active
\* category was unselected with no file or selected with all of its files.
C15_SelectAllTwiceRestoresAllOrNothing ==
    [][/\ CatA => (SameSelection(SecondCatA) <=> AllOrNothingSelected)
       /\ FilesA => (SameSelection(SecondFilesA) <=> ActiveAllOrNothingSelected)]_vars

\* The state between the two presses of a round trip in the files pane that
\* started with downloads unselected: downloads is selected with both files,
\* large-files was never touched.
C15_Witness ==
    /\ pc = "picker"
    /\ activePane = "files"
    /\ activeCategory = Downloads
    /\ selectedCategories = {Downloads}
    /\ DOMAIN selectedFilesByCategory = {Downloads}
    /\ selectedFilesByCategory[Downloads] = {<<"b", "f1">>, <<"c", "f2">>}
    /\ getPickerState(categoryFilePickerStates, Downloads).fileCaret = 3

\* ------------------------------------------------------------------------
\* C16: in every reachable state at most one category has active = true in
\* the per-category UI state store.
\* ------------------------------------------------------------------------
ActiveCategories ==
    {k \in DOMAIN categoryFilePickerStates : categoryFilePickerStates[k].active}

C16_AtMostOneActive == Cardinality(ActiveCategories) <= 1

\* large-files is the active category while the store also holds downloads,
\* which was the active one before: its caret was moved to its second file.
C16_Witness ==
    /\ activePane = "files"
    /\ ActiveCategories = {LargeFiles}
    /\ Downloads \in DOMAIN categoryFilePickerStates
    /\ categoryFilePickerStates[Downloads].fileCaret = 3

\* ------------------------------------------------------------------------
\* C17: in every reachable state selectedFilesByCategory has entries only for
\* categories that support file selection; a category without that support
\* can be in selectedCategories (space, a or i put it there) but never has a
\* selected-file entry.
\* ------------------------------------------------------------------------
C17_FileEntriesOnlyForFileSelectionCategories ==
    /\ DOMAIN selectedFilesByCategory \subseteq categoriesWithFileSelection
    /\ \A c \in selectedCategories \ categoriesWithFileSelection :
          c \notin DOMAIN selectedFilesByCategory

\* trash (no file selection) is selected and has no entry, next to large-files
\* which is selected and has one.
C17_Witness ==
    /\ Trash \in CategoryIds(results)
    /\ Trash \notin categoriesWithFileSelection
    /\ selectedCategories = {LargeFiles, Trash}
    /\ DOMAIN selectedFilesByCategory = {LargeFiles}
    /\ selectedFilesByCategory[LargeFiles] # {}

\* ------------------------------------------------------------------------
\* C18: interactiveCommand calls clean on a scanner only after the picker
\* returned a selection that yields at least one item and the confirmation
\* prompt returned true; once nothing is selected or the user has declined,
\* no clean call has happened or happens and the command returns null.
\* ------------------------------------------------------------------------
C18_CleanOnlyAfterSelectionAndConfirm ==
    /\ cleanCalls # <<>> =>
          /\ filePickerResult.confirmed
          /\ selectedItems # <<>>
          /\ proceed = "yes"
    /\ (pc \in {"confirm", "cleaning"} \/ returned = "summary") => selectedItems # <<>>
    /\ (pc = "cleaning" \/ returned = "summary") => proceed = "yes"
    /\ (pc = "returned" /\ (selectedItems = <<>> \/ proceed = "no")) =>
          /\ cleanCalls = <<>>
          /\ returned = "null"

\* The command has returned its summary after two clean calls, the first one
\* with a part of the files of large-files.
C18_Witness ==
    /\ pc = "returned"
    /\ returned = "summary"
    /\ proceed = "yes"
    /\ Len(cleanCalls) = 2
    /\ cleanCalls = selectedItems
    /\ cleanCalls[1].categoryId = LargeFiles
    /\ Len(cleanCalls[1].items) = 2
    /\ cleanCalls[2].categoryId = Trash

\* ------------------------------------------------------------------------
\* C19: when includeRisky is not set, no category with safetyLevel risky is
\* passed to the picker and no item of a risky category is handed to clean;
\* if only risky categories have items, the command returns null without
\* opening the picker.
\* ------------------------------------------------------------------------
RiskyIds == {summary[i].category.id :
                i \in {j \in 1..Len(summary) : summary[j].category.safetyLevel = "risky"}}

RiskyItems == UNION {Range(summary[i].items) :
                        i \in {j \in 1..Len(summary) :
                                  summary[j].category.safetyLevel = "risky"}}

OnlyRiskyHaveItems ==
    /\ \E i \in 1..Len(summary) : Len(summary[i].items) > 0
    /\ \A i \in 1..Len(summary) :
          Len(summary[i].items) > 0 => summary[i].category.safetyLevel = "risky"

C19_RiskyHiddenByDefault ==
    ~options.includeRisky =>
        /\ \A i \in 1..Len(results) : results[i].category.safetyLevel # "risky"
        /\ categoriesWithFileSelection \cap RiskyIds = {}
        /\ \A i \in 1..Len(cleanCalls) :
              /\ cleanCalls[i].categoryId \notin RiskyIds
              /\ Range(cleanCalls[i].items) \cap RiskyItems = {}
        /\ OnlyRiskyHaveItems =>
              /\ pc \in {"scanned", "returned"}
              /\ results = <<>>
              /\ ~filePickerResult.confirmed
              /\ pc = "returned" => returned = "null"

\* Without includeRisky the scan found a risky large-files with six files and
\* trash: the picker got trash alone and trash alone was cleaned.
C19_Witness ==
    /\ ~options.includeRisky
    /\ summary = ScanMixed
    /\ CategoryIds(results) = {Trash}
    /\ pc = "returned"
    /\ Len(cleanCalls) = 1
    /\ cleanCalls[1].categoryId = Trash

\* ------------------------------------------------------------------------
\* C20: if the picker session is aborted instead of confirmed (the prompt
\* rejects with an exit / interrupt error), no selection is returned to the
\* caller and no scanner clean call happens, whatever was selected in the
\* picker at that moment: the run ends there with nothing cleaned.
\* ------------------------------------------------------------------------
C20_AbortCleansNothing ==
    /\ [][PickerAbort =>
            /\ pc' = "exited"
            /\ filePickerResult' = NoResult
            /\ selectedItems' = <<>>
            /\ cleanCalls' = <<>>]_vars
    /\ [][pc = "exited" => pc' = "exited" /\ cleanCalls' = cleanCalls]_vars
    /\ [](pc = "exited" => cleanCalls = <<>> /\ returned = "none")

\* The picker was aborted with both categories and two files selected.
C20_Witness ==
    /\ pc = "exited"
    /\ summary = ScanMixed
    /\ selectedCategories = {LargeFiles, Trash}
    /\ Cardinality(SelectedFilesOf(LargeFiles)) = 2
    /\ filePickerResult = NoResult
    /\ selectedItems = <<>>
    /\ cleanCalls = <<>>

\* ------------------------------------------------------------------------
\* Vocabulary for the claims about a call of groupFilesByDirectory
\* ------------------------------------------------------------------------
\* The directories of the argument and the members of one of them
GroupDirs == {Dirname(groupFiles[i].path) : i \in 1..Len(groupFiles)}

MembersOf(d) == {f \in Range(groupFiles) : Dirname(f.path) = d}

LargestIn(d) == CHOOSE m \in {f.size : f \in MembersOf(d)} :
                    \A f \in MembersOf(d) : f.size <= m

RowsOfType(t) == {i \in 1..Len(displayItems) : displayItems[i].type = t}

\* ------------------------------------------------------------------------
\* C21: for every item set, in every input order, groupFilesByDirectory
\* emits every directory once, the directories in descending order of their
\* largest member's size and, within each directory, the file rows in
\* descending order of size.
\* ------------------------------------------------------------------------
C21_GroupingOrder ==
    grouped =>
        /\ {displayItems[i].directoryKey : i \in RowsOfType("directory-header")} = GroupDirs
        /\ \A i, j \in RowsOfType("directory-header") :
              i < j => /\ displayItems[i].directoryKey # displayItems[j].directoryKey
                       /\ LargestIn(displayItems[i].directoryKey)
                             >= LargestIn(displayItems[j].directoryKey)
        /\ \A i, j \in RowsOfType("file") :
              (i < j /\ displayItems[i].directoryKey = displayItems[j].directoryKey)
                 => displayItems[i].item.size >= displayItems[j].item.size

\* An argument in ascending order of size over two directories comes out
\* with b (largest 40) before a, and g2 before g1.
C21_Witness ==
    /\ grouped
    /\ groupFiles = <<Item("a", "f2", 10), Item("b", "g1", 20), Item("b", "g2", 40)>>
    /\ Len(displayItems) = 5
    /\ displayItems[1].directoryKey = <<"b">>
    /\ displayItems[2].item = Item("b", "g2", 40)
    /\ displayItems[3].item = Item("b", "g1", 20)
    /\ displayItems[4].directoryKey = <<"a">>

\* ------------------------------------------------------------------------
\* C22: for every item set and every expand-limit map, the rows of each
\* directory with n members and effective limit L (its override, else the
\* default 5) are consecutive: one directory-header row carrying n, then
\* exactly min(L, n) file rows holding the largest members, largest first,
\* then one expand-hint row carrying n - L exactly when n > L; there are no
\* other rows.  An empty item set gives no row, a single item one header and
\* one file row.
\* ------------------------------------------------------------------------
EffectiveLimit(d) ==
    IF d \in DOMAIN groupLimits THEN groupLimits[d] ELSE DIR_VIS_CHILD_LIMIT

RowsOfDir(d) == {i \in 1..Len(displayItems) : displayItems[i].directoryKey = d}

DirRowsAsSpecified(d) ==
    LET n == Cardinality(MembersOf(d))
        L == EffectiveLimit(d)
        k == Min(L, n)
        first == CHOOSE i \in RowsOfDir(d) : \A j \in RowsOfDir(d) : i <= j
        last == first + k + (IF n > L THEN 1 ELSE 0)
        shown == {displayItems[first + i].item : i \in 1..k}
    IN /\ RowsOfDir(d) # {}
       /\ RowsOfDir(d) = first..last
       /\ displayItems[first].type = "directory-header"
       /\ displayItems[first].totalFilesInDir = n
       /\ \A i \in 1..k :
             /\ displayItems[first + i].type = "file"
             /\ displayItems[first + i].selectable
             /\ displayItems[first + i].item \in MembersOf(d)
             /\ i < k => displayItems[first + i].item.size
                            >= displayItems[first + i + 1].item.size
       /\ Cardinality(shown) = k
       /\ \A f \in shown, g \in MembersOf(d) \ shown : f.size >= g.size
       /\ n > L =>
             /\ displayItems[last].type = "expand-hint"
             /\ displayItems[last].hiddenCount = n - L
             /\ ~displayItems[last].selectable

SelectableIndices(rows) == {i \in 0..(Len(rows) - 1) : RowAt(rows, i).selectable}

Lowest(S) == CHOOSE i \in S : \A j \in S : i <= j

Highest(S) == CHOOSE i \in S : \A j \in S : i >= j

\* ------------------------------------------------------------------------
\* C23: right arrow in the category pane enters the files pane only if the
\* category under the caret supports file selection and has at least one
\* display row; otherwise the key changes nothing.  On entry that category
\* becomes the only active one and its fileCaret is on a selectable row: the
\* remembered fileCaret when that is in range and on a selectable row,
\* otherwise the first selectable row of the sequence.
\* ------------------------------------------------------------------------
C23_RightEntersFilesPane ==
    [][CatRight =>
        LET id == currentResult.category.id
            rows == GroupedFiles(results, categoriesWithFileSelection,
                                 categoryFilePickerStates, id)
            remembered == getPickerState(categoryFilePickerStates, id).fileCaret
            newCaret == getPickerState(categoryFilePickerStates', id).fileCaret
        IN IF id \in categoriesWithFileSelection /\ Len(rows) > 0
           THEN /\ activePane' = "files"
                /\ {k \in DOMAIN categoryFilePickerStates' :
                       categoryFilePickerStates'[k].active} = {id}
                /\ newCaret \in SelectableIndices(rows)
                /\ newCaret = IF remembered \in SelectableIndices(rows)
                              THEN remembered
                              ELSE Lowest(SelectableIndices(rows))
                /\ categoryFilePickerStates'[id].dirExpandLimits
                      = getPickerState(categoryFilePickerStates, id).dirExpandLimits
           ELSE UNCHANGED vars]_vars

\* large-files was entered again after its directory a had been expanded and
\* collapsed: the caret is on the first file row and downloads, entered
\* before, keeps its own caret and is not active.
C23_Witness ==
    /\ pc = "picker"
    /\ activePane = "files"
    /\ results = ScenarioDeep
    /\ activeCategory = LargeFiles
    /\ activeFileCaret = 1
    /\ <<"a">> \in DOMAIN categoryFilePickerStates[LargeFiles].dirExpandLimits
    /\ categoryFilePickerStates[LargeFiles].dirExpandLimits[<<"a">>] = DIR_VIS_CHILD_LIMIT
    /\ Downloads \in DOMAIN categoryFilePickerStates
    /\ ~categoryFilePickerStates[Downloads].active

\* ------------------------------------------------------------------------
\* C24: up and down in the files pane move the caret to the nearest
\* selectable row in that direction, skipping directory-header and
\* expand-hint rows; they never wrap around and, when no selectable row
\* exists in that direction, leave the caret where it is.  A caret move made
\* by up or down never ends on a non-selectable row.
\* ------------------------------------------------------------------------
C24_UpDownReachNearestSelectable ==
    InFilesPane =>
        LET rows == activeGroupedFiles
            c == activeFileCaret
            above == {i \in SelectableIndices(rows) : i < c}
            below == {i \in SelectableIndices(rows) : i > c}
            up == FilesUpCaret(rows, c)
            down == FilesDownCaret(rows, c)
        IN /\ up = (IF above = {} THEN c ELSE Highest(above))
           /\ down = (IF below = {} THEN c ELSE Lowest(below))
           /\ up # c => up \in SelectableIndices(rows)
           /\ down # c => down \in SelectableIndices(rows)

\* ------------------------------------------------------------------------
\* C25: while the files pane is focused, after every command and the render
\* that follows it, the active category's fileCaret is an index inside its
\* current display-row sequence and the row at that index is selectable; in
\* particular after h collapsed a directory whose expanded rows held the
\* caret.
\* ------------------------------------------------------------------------
C25_CaretOnSelectableRow ==
    InFilesPane => activeFileCaret \in SelectableIndices(activeGroupedFiles)

\* ------------------------------------------------------------------------
\* C26: m in the files pane, and right arrow with the caret on an
\* expand-hint row, set the expand limit of the caret row's directory to its
\* current effective limit (its override, else the default 5) plus 10 and
\* leave the expand limits of every other directory and of every other
\* category unchanged.  The first conjunct states it of the limits the
\* handlers compute in every files-pane state, the second of the store after
\* every m and right step.
\* ------------------------------------------------------------------------
C26_ExpandAddsIncrement ==
    /\ [](InFilesPane =>
            LET d == RowAt(activeGroupedFiles, activeFileCaret).directoryKey
                pickerState == getPickerState(categoryFilePickerStates, activeCategory)
                old == pickerState.dirExpandLimits
                effective == IF d \in DOMAIN old THEN old[d] ELSE 5
            IN d # <<>> =>
                  /\ DOMAIN ExpandedLimits(pickerState, d) = DOMAIN old \cup {d}
                  /\ ExpandedLimits(pickerState, d)[d] = effective + 10
                  /\ \A e \in DOMAIN old \ {d} :
                        ExpandedLimits(pickerState, d)[e] = old[e])
    /\ [][(FilesM \/ FilesRight) =>
            LET d == RowAt(activeGroupedFiles, activeFileCaret).directoryKey
                old == getPickerState(categoryFilePickerStates, activeCategory).dirExpandLimits
                new == getPickerState(categoryFilePickerStates', activeCategory).dirExpandLimits
                effective == IF d \in DOMAIN old THEN old[d] ELSE 5
            IN d # <<>> =>
                  /\ DOMAIN new = DOMAIN old \cup {d}
                  /\ new[d] = effective + 10
                  /\ \A e \in DOMAIN old \ {d} : new[e] = old[e]
                  /\ DOMAIN categoryFilePickerStates' = DOMAIN categoryFilePickerStates
                  /\ \A k \in DOMAIN categoryFilePickerStates \ {activeCategory} :
                        categoryFilePickerStates'[k] = categoryFilePickerStates[k]]_vars

\* Directory a of large-files was expanded twice (5, 15, 25) next to an
\* expanded directory b, while downloads keeps the single expansion of its
\* directory c.
C26_Witness ==
    /\ InFilesPane
    /\ results = ScenarioDeep
    /\ activeCategory = LargeFiles
    /\ <<"a">> \in DOMAIN categoryFilePickerStates[LargeFiles].dirExpandLimits
    /\ categoryFilePickerStates[LargeFiles].dirExpandLimits[<<"a">>] = 25
    /\ <<"b">> \in DOMAIN categoryFilePickerStates[LargeFiles].dirExpandLimits
    /\ categoryFilePickerStates[LargeFiles].dirExpandLimits[<<"b">>] = 15
    /\ Downloads \in DOMAIN categoryFilePickerStates
    /\ <<"c">> \in DOMAIN categoryFilePickerStates[Downloads].dirExpandLimits
    /\ categoryFilePickerStates[Downloads].dirExpandLimits[<<"c">>] = 15

\* The rows of one directory within a display-row sequence.
DirectoryRows(rows, d) == SelectSeq(rows, LAMBDA r : r.directoryKey = d)

\* A limits record without an entry for directory d.
WithoutOverride(limits, d) == [e \in DOMAIN limits \ {d} |-> limits[e]]

\* ------------------------------------------------------------------------
\* C27: h in the files pane resets the caret row's directory to the default
\* limit: after any number of m presses on a directory followed by one h the
\* display rows of that directory are the rows it had before the first m
\* (when it had no override), and the limits of the other directories are
\* unchanged.  The first conjunct states it of the limits h computes in every
\* files-pane state, the second of the store after every h step.
\* ------------------------------------------------------------------------
C27_CollapseRestoresDefaultRows ==
    /\ [](InFilesPane =>
            LET d == RowAt(activeGroupedFiles, activeFileCaret).directoryKey
                pickerState == getPickerState(categoryFilePickerStates, activeCategory)
                old == pickerState.dirExpandLimits
                files == ResultOf(results, activeCategory).items
            IN d # <<>> =>
                  /\ DOMAIN CollapsedLimits(pickerState, d) = DOMAIN old \cup {d}
                  /\ CollapsedLimits(pickerState, d)[d] = 5
                  /\ \A e \in DOMAIN old \ {d} :
                        CollapsedLimits(pickerState, d)[e] = old[e]
                  /\ DirectoryRows(groupFilesByDirectory(files, CollapsedLimits(pickerState, d)), d)
                        = DirectoryRows(groupFilesByDirectory(files, WithoutOverride(old, d)), d))
    /\ [][FilesH =>
            LET d == RowAt(activeGroupedFiles, activeFileCaret).directoryKey
                old == getPickerState(categoryFilePickerStates, activeCategory).dirExpandLimits
                new == getPickerState(categoryFilePickerStates', activeCategory).dirExpandLimits
                files == ResultOf(results, activeCategory).items
            IN d # <<>> =>
                  /\ DOMAIN new = DOMAIN old \cup {d}
                  /\ new[d] = 5
                  /\ \A e \in DOMAIN old \ {d} : new[e] = old[e]
                  /\ DirectoryRows(GroupedFiles(results, categoriesWithFileSelection,
                                                categoryFilePickerStates', activeCategory), d)
                        = DirectoryRows(groupFilesByDirectory(files, WithoutOverride(old, d)), d)
                  /\ DOMAIN categoryFilePickerStates' = DOMAIN categoryFilePickerStates
                  /\ \A k \in DOMAIN categoryFilePickerStates \ {activeCategory} :
                        categoryFilePickerStates'[k] = categoryFilePickerStates[k]]_vars

\* Directory a of large-files was expanded and then collapsed (its key is
\* recorded with the default limit) while directory b stays expanded: a shows
\* its header, five files and the hint again, ten rows with those of b.
C27_Witness ==
    /\ InFilesPane
    /\ results = ScenarioDeep
    /\ activeCategory = LargeFiles
    /\ <<"a">> \in DOMAIN categoryFilePickerStates[LargeFiles].dirExpandLimits
    /\ categoryFilePickerStates[LargeFiles].dirExpandLimits[<<"a">>] = 5
    /\ <<"b">> \in DOMAIN categoryFilePickerStates[LargeFiles].dirExpandLimits
    /\ categoryFilePickerStates[LargeFiles].dirExpandLimits[<<"b">>] = 25
    /\ Len(DirectoryRows(activeGroupedFiles, <<"a">>)) = 7
    /\ Len(activeGroupedFiles) = 10

\* ------------------------------------------------------------------------
\* C28: left arrow or backspace in the files pane leaves no category active
\* and focuses the category pane; if the caret was on a selectable row,
\* pressing right again on the same category restores the same fileCaret and
\* the same dirExpandLimits, and the selection is unchanged by the round
\* trip.
\* ------------------------------------------------------------------------
C28_LeftThenRightRestores ==
    [][FilesLeft =>
        LET id == activeCategory
            before == getPickerState(categoryFilePickerStates, id)
            rows == activeGroupedFiles
            rowsAfter == GroupedFiles(results, categoriesWithFileSelection,
                                      categoryFilePickerStates', id)
            reentered == EnterFilesPane(categoryFilePickerStates', id, rowsAfter)
        IN /\ activePane' = "categories"
           /\ \A k \in DOMAIN categoryFilePickerStates' : ~categoryFilePickerStates'[k].active
           /\ categoryCaret' = categoryCaret
           /\ currentResult.category.id = id
           /\ id \in categoriesWithFileSelection /\ Len(rowsAfter) > 0
           /\ selectedCategories' = selectedCategories
           /\ selectedFilesByCategory' = selectedFilesByCategory
           /\ before.fileCaret \in SelectableIndices(rows) =>
                 /\ reentered[id].active
                 /\ {k \in DOMAIN reentered : reentered[k].active} = {id}
                 /\ reentered[id].fileCaret = before.fileCaret
                 /\ reentered[id].dirExpandLimits = before.dirExpandLimits
                 /\ rowsAfter = rows]_vars

\* The files pane of large-files was left with the caret on the fourth file
\* of the expanded directory a and with files selected: the category pane is
\* focused, nothing is active, the caret and the limit are recorded.
C28_Witness ==
    /\ pc = "picker"
    /\ activePane = "categories"
    /\ results = ScenarioHidden
    /\ "large-files" \in DOMAIN categoryFilePickerStates
    /\ ~categoryFilePickerStates["large-files"].active
    /\ categoryFilePickerStates["large-files"].fileCaret = 4
    /\ <<"a">> \in DOMAIN categoryFilePickerStates["large-files"].dirExpandLimits
    /\ categoryFilePickerStates["large-files"].dirExpandLimits[<<"a">>] = 15
    /\ "large-files" \in DOMAIN selectedFilesByCategory
    /\ selectedFilesByCategory["large-files"] # {}

\* ------------------------------------------------------------------------
\* C29: per-category UI state persists for the whole picker session: once a
\* category has a recorded fileCaret and dirExpandLimits, no command in the
\* category pane (caret moves, space toggling the category off and on, a, i)
\* changes or discards them before the session ends.  An entry counts as
\* kept when reading the category's state after the command gives the same
\* fileCaret and dirExpandLimits.
\* ------------------------------------------------------------------------
C29_CategoryPaneKeepsUiState ==
    [][(CatUp \/ CatDown \/ CatSpace \/ CatA \/ CatI) =>
        \A k \in DOMAIN categoryFilePickerStates :
            /\ getPickerState(categoryFilePickerStates', k).fileCaret
                  = categoryFilePickerStates[k].fileCaret
            /\ getPickerState(categoryFilePickerStates', k).dirExpandLimits
                  = categoryFilePickerStates[k].dirExpandLimits]_vars

\* ------------------------------------------------------------------------
\* The c command of the files pane: copyToClipboard, its then and catch
\* callbacks and the timers they start.  No other command reads or writes
\* copyStatus or copyTimeoutRef, so c is taken next to the caret, expand and
\* toggle commands in a specification of its own.
\* ------------------------------------------------------------------------
\* Bound of the model: promises whose callback has not run plus timers that
\* have not fired; the code has no such cap.
MaxCopies == 2

\* What execSync("pbcopy") does: returns, throws an error with code ENOENT,
\* throws another Error, throws a value that is no Error.
ExecOutcomes == {"ok", "ENOENT", "Error", "thrown"}

\* utils/clipboard.ts: the promise the async function returns
copyToClipboard(execSync) ==
    CASE execSync = "ok" -> [status |-> "fulfilled", message |-> ""]
      [] execSync = "ENOENT" ->
            [status |-> "rejected", message |-> "Failed to copy: pbcopy was not found."]
      [] execSync = "Error" ->
            [status |-> "rejected", message |-> "Failed to copy to clipboard: error.message"]
      [] OTHER -> [status |-> "rejected", message |-> "Failed to copy to clipboard"]

\* c: clears the timer the ref holds and calls copyToClipboard; the promise
\* is settled when the call returns, its callback runs later.
FilesC ==
    /\ InFilesPane
    /\ LET currentFile == RowAt(activeGroupedFiles, activeFileCaret)
       IN IF currentFile.item # NoItem
          THEN /\ Len(clipboard) + timers < MaxCopies
               /\ copyTimeoutRef' = "null"
               /\ timers' = IF copyTimeoutRef = "pending" THEN timers - 1 ELSE timers
               /\ \E execSync \in ExecOutcomes :
                     clipboard' = Append(clipboard,
                                         [promise |-> copyToClipboard(execSync),
                                          dirPath |-> Dirname(currentFile.item.path)])
               /\ UNCHANGED copyStatus
          ELSE UNCHANGED copy
    /\ UNCHANGED <<config, picker, afterPicker>>

\* Variant of ClipboardSettled: there is no catch, a rejected promise ends
\* the process.
ClipboardSettled_RejectionEscapes ==
    /\ pc = "picker"
    /\ clipboard # <<>>
    /\ clipboard' = Tail(clipboard)
    /\ IF Head(clipboard).promise.status = "fulfilled"
       THEN /\ copyStatus' = <<"Copied: ", Head(clipboard).dirPath>>
            /\ copyTimeoutRef' = "pending"
            /\ timers' = timers + 1
            /\ UNCHANGED pc
       ELSE /\ pc' = "exited"
            /\ UNCHANGED <<copyStatus, copyTimeoutRef, timers>>
    /\ UNCHANGED <<config, picker, filePickerResult, selectedItems, afterSelection>>

\* The then or the catch callback of the oldest settled promise: it sets the
\* status and starts a timer, whose handle replaces the one in the ref.
ClipboardSettled ==
    /\ pc = "picker"
    /\ clipboard # <<>>
    /\ clipboard' = Tail(clipboard)
    /\ copyStatus' = IF Head(clipboard).promise.status = "fulfilled"
                     THEN <<"Copied: ", Head(clipboard).dirPath>>
                     ELSE <<"Failed to copy: ", Head(clipboard).promise.message>>
    /\ copyTimeoutRef' = "pending"
    /\ timers' = timers + 1
    /\ UNCHANGED <<config, picker, afterPicker>>

\* A timer fires: setCopyStatus(null).  It is the timer the ref holds or,
\* when a later callback replaced the handle, one the ref no longer holds.
CopyTimeout ==
    /\ pc = "picker"
    /\ timers > 0
    /\ timers' = timers - 1
    /\ copyStatus' = <<>>
    /\ \/ copyTimeoutRef = "pending" /\ copyTimeoutRef' = "fired"
       \/ timers > (IF copyTimeoutRef = "pending" THEN 1 ELSE 0)
          /\ UNCHANGED copyTimeoutRef
    /\ UNCHANGED <<clipboard, config, picker, afterPicker>>

InitCopy ==
    /\ results = ScenarioTwoDirs
    /\ categoriesWithFileSelection = FileSelectionCategories(results, FALSE)
    /\ activePane = "categories"
    /\ categoryCaret = 0
    /\ selectedCategories = {}
    /\ selectedFilesByCategory = EmptyMap
    /\ categoryFilePickerStates = EmptyMap
    /\ pc = "picker"
    /\ filePickerResult = NoResult
    /\ selectedItems = <<>>
    /\ summary = results
    /\ options = [includeRisky |-> FALSE, filePicker |-> FALSE]
    /\ proceed = "unasked"
    /\ cleanCalls = <<>>
    /\ returned = "none"
    /\ NoGrouping
    /\ NoCopy
    /\ NoWindow
    /\ NoScan

NextCopy ==
    \/ CatRight
    \/ FilesDown
    \/ FilesSpace
    \/ FilesM
    \/ FilesLeft
    \/ FilesC
    \/ ClipboardSettled
    \/ CopyTimeout

SpecCopy == InitCopy /\ [][NextCopy]_vars

\* ------------------------------------------------------------------------
\* C30: the copy command (c) and the later resolution or rejection of the
\* clipboard operation never change selectedCategories,
\* selectedFilesByCategory, the active pane or any per-category UI state,
\* and a clipboard failure neither ends the session nor raises an error into
\* it: the only effect is on the transient status message.
\* ------------------------------------------------------------------------
C30_CopyTouchesStatusOnly ==
    [][(FilesC \/ ClipboardSettled \/ CopyTimeout) =>
        /\ selectedCategories' = selectedCategories
        /\ selectedFilesByCategory' = selectedFilesByCategory
        /\ activePane' = activePane
        /\ categoryCaret' = categoryCaret
        /\ categoryFilePickerStates' = categoryFilePickerStates
        /\ pc' = "picker"
        /\ filePickerResult' = filePickerResult
        /\ (ClipboardSettled /\ Head(clipboard).promise.status = "rejected") =>
              copyStatus' = <<"Failed to copy: ", Head(clipboard).promise.message>>
        /\ (ClipboardSettled /\ Head(clipboard).promise.status = "fulfilled") =>
              copyStatus' = <<"Copied: ", Head(clipboard).dirPath>>]_vars

\* A copy failed for want of pbcopy while a file of the expanded directory
\* was selected: the session goes on in the files pane and shows the failure.
C30_Witness ==
    /\ InFilesPane
    /\ copyStatus = <<"Failed to copy: ", "Failed to copy: pbcopy was not found.">>
    /\ timers > 0
    /\ selectedCategories # {}
    /\ activeCategory \in DOMAIN selectedFilesByCategory
    /\ selectedFilesByCategory[activeCategory] # {}
    /\ getPickerState(categoryFilePickerStates, activeCategory).dirExpandLimits # EmptyMap

\* ------------------------------------------------------------------------
\* C31: at most one status-clear timer is pending at any time: when c is
\* pressed again before the previous status has expired, under every
\* interleaving of key presses, clipboard completions and timer firings, the
\* earlier timer is cancelled and can no longer clear the status message set
\* by the later copy.  The timer that fires is the one the latest callback
\* started, the one copyTimeoutRef holds.
\* ------------------------------------------------------------------------
C31_OneStatusTimer ==
    /\ [](timers <= 1)
    /\ [][CopyTimeout => copyTimeoutRef = "pending" /\ copyTimeoutRef' = "fired"]_vars

\* ------------------------------------------------------------------------
\* C32: in the files pane, whenever the active category's display sequence
\* contains a selectable row, the caret can be brought onto a selectable row
\* with up and down alone: after any sequence of m and h presses there is no
\* state in which both up and down leave a caret that is not on a selectable
\* row unchanged.
\* ------------------------------------------------------------------------
C32_CaretNeverStuck ==
    (/\ InFilesPane
     /\ SelectableIndices(activeGroupedFiles) # {}
     /\ activeFileCaret \notin SelectableIndices(activeGroupedFiles))
        => \/ FilesUpCaret(activeGroupedFiles, activeFileCaret) # activeFileCaret
           \/ FilesDownCaret(activeGroupedFiles, activeFileCaret) # activeFileCaret

\* ------------------------------------------------------------------------
\* C33: end to end, every file that is in a category's selected-file set
\* when the selection is confirmed is among the items handed to the cleaner
\* for that category: no sequence of picker commands ends in a confirmed
\* state where a selected file of a file-selection category is left out.
\* ------------------------------------------------------------------------
C33_SelectedFilesReachCleaner ==
    pc = "selected" =>
        \A id \in categoriesWithFileSelection \cap CategoryIds(results) :
            \A p \in GetOrEmpty(filePickerResult.selectedFilesByCategory, id) :
                \E i \in EntriesFor(id) :
                    \E it \in Range(selectedItems[i].items) : it.path = p

\* ------------------------------------------------------------------------
\* render: the pagination window of one category's rows, taken on its own
\* for every caret and row count
\* ------------------------------------------------------------------------
\* Bound of the model: the rendered sequence has at most MaxWindowRows rows
\* and the caret lies between -1 and MaxWindowRows + 2.
MaxWindowRows == 9

\* Number of scanners of a run; runAllScans has fifteen.
MaxTasks == 3

\* Variant of fileStart: the start is not held back at length - FILES_PAGE_SIZE.
fileStart_NoUpperClamp(isThisPickerActive, fileCaret, length) ==
    IF isThisPickerActive
    THEN Max(0, fileCaret - (FILES_PAGE_SIZE \div 2))
    ELSE 0

fileStart(isThisPickerActive, fileCaret, length) ==
    IF isThisPickerActive
    THEN Max(0, Min(fileCaret - (FILES_PAGE_SIZE \div 2), length - FILES_PAGE_SIZE))
    ELSE 0

fileEnd(start, length) == Min(length, start + FILES_PAGE_SIZE)

InitWindow ==
    /\ windowInput \in [active : BOOLEAN,
                        fileCaret : (-1)..(MaxWindowRows + 2),
                        length : 0..MaxWindowRows]
    /\ fileWindow = NoFileWindow
    /\ pc = "rendering"
    /\ results = <<>>
    /\ categoriesWithFileSelection = {}
    /\ activePane = "categories"
    /\ categoryCaret = 0
    /\ selectedCategories = {}
    /\ selectedFilesByCategory = EmptyMap
    /\ categoryFilePickerStates = EmptyMap
    /\ filePickerResult = NoResult
    /\ selectedItems = <<>>
    /\ summary = <<>>
    /\ options = [includeRisky |-> FALSE, filePicker |-> FALSE]
    /\ proceed = "unasked"
    /\ cleanCalls = <<>>
    /\ returned = "none"
    /\ NoGrouping
    /\ NoCopy
    /\ NoScan

RenderWindow ==
    /\ pc = "rendering"
    /\ ~fileWindow.rendered
    /\ LET start == fileStart(windowInput.active, windowInput.fileCaret, windowInput.length)
       IN fileWindow' = [fileStart |-> start,
                         fileEnd |-> fileEnd(start, windowInput.length),
                         rendered |-> TRUE]
    /\ UNCHANGED <<windowInput, summary, options, results, categoriesWithFileSelection,
                   grouping, picker, afterPicker, copy, scan>>

NextWindow == RenderWindow

SpecWindow == InitWindow /\ [][NextWindow]_vars

\* ------------------------------------------------------------------------
\* C34: for the active picker the rendered file window [start, end)
\* satisfies 0 <= start <= end <= rowCount and end - start = min(6, rowCount)
\* for every caret value and every row count, and whenever the caret is
\* inside [0, rowCount) the window contains the caret row.
\* ------------------------------------------------------------------------
C34_WindowClamped ==
    (fileWindow.rendered /\ windowInput.active) =>
        LET start == fileWindow.fileStart
            end == fileWindow.fileEnd
            rowCount == windowInput.length
            caret == windowInput.fileCaret
        IN /\ 0 <= start /\ start <= end /\ end <= rowCount
           /\ end - start = (IF rowCount < 6 THEN rowCount ELSE 6)
           /\ (0 <= caret /\ caret < rowCount) => (start <= caret /\ caret < end)

\* Nine rows with the caret on the last one: rows 3 to 8 are shown.
C34_Witness ==
    /\ fileWindow.rendered
    /\ windowInput = [active |-> TRUE, fileCaret |-> 8, length |-> 9]
    /\ fileWindow.fileStart = 3
    /\ fileWindow.fileEnd = 9

\* ------------------------------------------------------------------------
\* C35: with a non-empty result list, after any sequence of commands the
\* category caret stays in [0, number of categories - 1]: up at the first
\* category and down at the last one leave it unchanged (no wraparound), and
\* no other command moves it.  The first conjunct states it of the caret and
\* of the carets up and down compute in every state of the open picker, the
\* second of every step that moves the caret.
\* ------------------------------------------------------------------------
C35_CategoryCaretInRange ==
    /\ []((pc = "picker" /\ Len(results) > 0) =>
            /\ categoryCaret \in 0..(Len(results) - 1)
            /\ CatUpCaret(categoryCaret)
                  = (IF categoryCaret = 0 THEN categoryCaret ELSE categoryCaret - 1)
            /\ CatDownCaret(results, categoryCaret)
                  = (IF categoryCaret = Len(results) - 1
                     THEN categoryCaret ELSE categoryCaret + 1))
    /\ [][(pc = "picker" /\ pc' = "picker" /\ categoryCaret' # categoryCaret) =>
            /\ activePane = "categories"
            /\ CatUp \/ CatDown]_vars

\* The caret is on the last of two categories, reached while the first one
\* was selected.
C35_Witness ==
    /\ pc = "picker"
    /\ Len(results) = 2
    /\ categoryCaret = 1
    /\ activePane = "categories"
    /\ selectedCategories = {currentResult.category.id, results[1].category.id}

\* ------------------------------------------------------------------------
\* C36: in every reachable state the files pane is focused if and only if
\* exactly one category is active, and that active category is the one under
\* the category caret and supports file selection; while the category pane
\* is focused no category is active.
\* ------------------------------------------------------------------------
C36_FilesPaneIffOneActive ==
    pc = "picker" =>
        /\ activePane = "files" <=> Cardinality(ActiveCategories) = 1
        /\ activePane = "files" =>
              /\ ActiveCategories = {currentResult.category.id}
              /\ activeCategory = currentResult.category.id
              /\ activeCategory \in categoriesWithFileSelection
        /\ activePane = "categories" => ActiveCategories = {}

\* The files pane of the second category is open while the first one, left
\* before, keeps its entry without being active.
C36_Witness ==
    /\ pc = "picker"
    /\ activePane = "files"
    /\ categoryCaret = 1
    /\ activeCategory = results[2].category.id
    /\ results[1].category.id \in DOMAIN categoryFilePickerStates
    /\ ~categoryFilePickerStates[results[1].category.id].active

\* ------------------------------------------------------------------------
\* C37: in every reachable state each category's selected-file set is a
\* subset of the paths of that category's scanned items: no command ever
\* adds a path that is not one of the category's own items.
\* ------------------------------------------------------------------------
C37_SelectedFilesAreOwnItems ==
    /\ DOMAIN selectedFilesByCategory \subseteq CategoryIds(results)
    /\ \A id \in DOMAIN selectedFilesByCategory :
          selectedFilesByCategory[id] \subseteq AllFilePaths(ResultOf(results, id))

\* Two categories hold selected files, each a part of its own items.
C37_Witness ==
    /\ pc = "picker"
    /\ results = ScenarioTwoDirs
    /\ selectedFilesByCategory = [k \in {"downloads", "large-files"} |->
                                     IF k = "downloads" THEN {<<"c", "f2">>}
                                     ELSE {<<"d", "f3">>}]

\* ------------------------------------------------------------------------
\* The picker with the navigation and view commands of both panes, the copy
\* command and the selection commands of the files pane.  The user copies
\* while no earlier copy is under way; SpecCopy has the overlapping copies.
\* ------------------------------------------------------------------------
InitFrame ==
    /\ results = ScenarioHidden
    /\ categoriesWithFileSelection = FileSelectionCategories(results, FALSE)
    /\ activePane = "categories"
    /\ categoryCaret = 0
    /\ selectedCategories = {}
    /\ selectedFilesByCategory = EmptyMap
    /\ categoryFilePickerStates = EmptyMap
    /\ pc = "picker"
    /\ filePickerResult = NoResult
    /\ selectedItems = <<>>
    /\ summary = results
    /\ options = [includeRisky |-> FALSE, filePicker |-> FALSE]
    /\ proceed = "unasked"
    /\ cleanCalls = <<>>
    /\ returned = "none"
    /\ NoGrouping
    /\ NoCopy
    /\ NoWindow
    /\ NoScan

NextFrame ==
    \/ CatUp
    \/ CatDown
    \/ CatRight
    \/ FilesUp
    \/ FilesDown
    \/ FilesM
    \/ FilesH
    \/ FilesRight
    \/ FilesLeft
    \/ (clipboard = <<>> /\ FilesC)
    \/ FilesSpace
    \/ FilesA
    \/ FilesD
    \/ FilesI

SpecFrame == InitFrame /\ [][NextFrame]_vars

\* ------------------------------------------------------------------------
\* C38: navigation and view commands never change the selection: up and down
\* in either pane, right (enter the files pane or expand), left/backspace,
\* m, h and c leave selectedCategories and selectedFilesByCategory
\* unchanged; and the selection commands of the files pane (space, a, i, d)
\* leave every category's fileCaret and dirExpandLimits unchanged.  Stated by
\* contraposition: a step that changes the selection is a step of none of
\* the navigation and view commands, and a step that changes a fileCaret or
\* a dirExpandLimits is a step of none of the selection commands.
\* ------------------------------------------------------------------------
C38_NavigationAndSelectionApart ==
    [][/\ (\/ selectedCategories' # selectedCategories
           \/ selectedFilesByCategory' # selectedFilesByCategory) =>
             ~(CatUp \/ CatDown \/ CatRight \/ FilesUp \/ FilesDown \/ FilesRight
                  \/ FilesLeft \/ FilesM \/ FilesH \/ FilesC)
       /\ (\E id \in CategoryIds(results) :
              \/ getPickerState(categoryFilePickerStates', id).fileCaret
                    # getPickerState(categoryFilePickerStates, id).fileCaret
              \/ getPickerState(categoryFilePickerStates', id).dirExpandLimits
                    # getPickerState(categoryFilePickerStates, id).dirExpandLimits) =>
             ~(FilesSpace \/ FilesA \/ FilesI \/ FilesD)]_vars

\* Files are selected in a directory that has been expanded, with the caret
\* moved off its first row and a copy under way: both kinds of command have
\* acted on the same picker.
C38_Witness ==
    /\ InFilesPane
    /\ activeCategory \in DOMAIN selectedFilesByCategory
    /\ selectedFilesByCategory[activeCategory] # {}
    /\ getPickerState(categoryFilePickerStates, activeCategory).dirExpandLimits # EmptyMap
    /\ activeFileCaret > 1
    /\ clipboard # <<>>

\* ------------------------------------------------------------------------
\* scanners/index.ts: runScans and runAllScans in parallel mode, and
\* runWithConcurrency, taken on their own
\* ------------------------------------------------------------------------
\* The scanners of the run, in the order of categoryIds
ScannerLabels == <<"trash", "temp-files", "downloads", "large-files", "docker">>

\* options.concurrency as the caller gives it
Concurrencies == (-1)..(MaxTasks + 1)

\* what scanner.scan resolves with
ScanResultOf(label) == [category |-> label]

\* const limit = Math.max(1, Math.min(concurrency, tasks.length || 1))
limit(c, length) == Max(1, Min(c, IF length = 0 THEN 1 ELSE length))

\* Variant of MustAwait: the loop waits only above the limit.
MustAwait_AboveLimit(exec, lim) == Cardinality(exec) > lim

\* if (executing.size >= limit)
MustAwait(exec, lim) == Cardinality(exec) >= lim

\* new Array(tasks.length): an element never written
Hole == [defined |-> FALSE, written |-> FALSE]

\* results[index] = undefined
Undefined == [defined |-> FALSE, written |-> TRUE]

\* return { scanner, result }
TaskValue(label) ==
    [defined |-> TRUE, written |-> TRUE, scanner |-> label, result |-> ScanResultOf(label)]

\* results.filter((r) => r !== undefined): holes and undefined are left out
Defined(rs) == SelectSeq(rs, LAMBDA r : r.defined)

\* scanResults.map((r) => r.result)
SummaryOf(scanResults) == [k \in 1..Len(scanResults) |-> scanResults[k].result]

InitScan ==
    /\ \E n \in 0..MaxTasks : tasks = SubSeq(ScannerLabels, 1, n)
    /\ concurrency \in Concurrencies
    /\ taskResults = [k \in 1..Len(tasks) |-> Hole]
    /\ executing = {}
    /\ scanIndex = 0
    /\ promises = [k \in 1..Len(tasks) |-> "unstarted"]
    /\ chain = [k \in 1..Len(tasks) |-> "none"]
    /\ starts = [k \in 1..Len(tasks) |-> 0]
    /\ awaiting = {}
    /\ scanPc = "loop"
    /\ scanSummary = <<>>
    /\ pc = "scanning"
    /\ results = <<>>
    /\ categoriesWithFileSelection = {}
    /\ activePane = "categories"
    /\ categoryCaret = 0
    /\ selectedCategories = {}
    /\ selectedFilesByCategory = EmptyMap
    /\ categoryFilePickerStates = EmptyMap
    /\ filePickerResult = NoResult
    /\ selectedItems = <<>>
    /\ summary = <<>>
    /\ options = [includeRisky |-> FALSE, filePicker |-> FALSE]
    /\ proceed = "unasked"
    /\ cleanCalls = <<>>
    /\ returned = "none"
    /\ NoGrouping
    /\ NoCopy
    /\ NoWindow

\* what the steps of a scan leave alone
outsideScan == <<summary, options, results, categoriesWithFileSelection, grouping,
                 window, picker, afterPicker, copy, tasks, concurrency>>

\* One pass of the for loop: task.fn() calls scanner.scan, the chain p is
\* built and added to executing; at the limit the loop awaits Promise.race.
LoopBody ==
    /\ scanPc = "loop"
    /\ scanIndex < Len(tasks)
    /\ LET index == scanIndex + 1
           added == executing \cup {index}
       IN /\ starts' = [starts EXCEPT ![index] = @ + 1]
          /\ promises' = [promises EXCEPT ![index] = "pending"]
          /\ chain' = [chain EXCEPT ![index] = "pending"]
          /\ executing' = added
          /\ IF MustAwait(added, limit(concurrency, Len(tasks)))
             THEN /\ scanPc' = "race"
                  /\ awaiting' = added
                  /\ UNCHANGED scanIndex
             ELSE /\ scanIndex' = scanIndex + 1
                  /\ UNCHANGED <<scanPc, awaiting>>
    /\ UNCHANGED <<outsideScan, taskResults, scanSummary>>

\* scanner.scan settles, and with it the promise of task.fn(): fulfilled, or
\* rejected when the scan or a progress callback throws
ScanSettles(k) ==
    /\ promises[k] = "pending"
    /\ \E outcome \in {"fulfilled", "rejected"} :
          promises' = [promises EXCEPT ![k] = outcome]
    /\ UNCHANGED <<outsideScan, taskResults, executing, scanIndex, chain, starts,
                   awaiting, scanPc, scanSummary>>

\* .then((result) => { results[index] = result })
TaskThen(k) ==
    /\ promises[k] = "fulfilled"
    /\ chain[k] = "pending"
    /\ taskResults' = [taskResults EXCEPT ![k] = TaskValue(tasks[k])]
    /\ chain' = [chain EXCEPT ![k] = "handled"]
    /\ UNCHANGED <<outsideScan, executing, scanIndex, promises, starts, awaiting,
                   scanPc, scanSummary>>

\* .catch((error) => { console.error(...); results[index] = undefined })
TaskCatch(k) ==
    /\ promises[k] = "rejected"
    /\ chain[k] = "pending"
    /\ taskResults' = [taskResults EXCEPT ![k] = Undefined]
    /\ chain' = [chain EXCEPT ![k] = "handled"]
    /\ UNCHANGED <<outsideScan, executing, scanIndex, promises, starts, awaiting,
                   scanPc, scanSummary>>

\* .finally(() => { executing.delete(p) }), after which p is settled
TaskFinally(k) ==
    /\ chain[k] = "handled"
    /\ executing' = executing \ {k}
    /\ chain' = [chain EXCEPT ![k] = "settled"]
    /\ UNCHANGED <<outsideScan, taskResults, scanIndex, promises, starts, awaiting,
                   scanPc, scanSummary>>

\* await Promise.race(executing) resumes once one of the raced chains has
\* settled; the loop goes on with i++
RaceResumes ==
    /\ scanPc = "race"
    /\ \E k \in awaiting : chain[k] = "settled"
    /\ scanPc' = "loop"
    /\ scanIndex' = scanIndex + 1
    /\ awaiting' = {}
    /\ UNCHANGED <<outsideScan, taskResults, executing, promises, chain, starts,
                   scanSummary>>

\* the loop is over: await Promise.allSettled(executing)
LoopExit ==
    /\ scanPc = "loop"
    /\ scanIndex >= Len(tasks)
    /\ scanPc' = "allSettled"
    /\ awaiting' = executing
    /\ UNCHANGED <<outsideScan, taskResults, executing, scanIndex, promises, chain,
                   starts, scanSummary>>

\* Variant of ScanReturns: the results are returned without waiting for the
\* chains still executing.
ScanReturns_NoAllSettled ==
    /\ scanPc = "allSettled"
    /\ scanPc' = "returned"
    /\ awaiting' = {}
    /\ scanSummary' = SummaryOf(Defined(taskResults))
    /\ UNCHANGED <<outsideScan, taskResults, executing, scanIndex, promises, chain,
                   starts>>

\* Promise.allSettled resumes when every awaited chain has settled;
\* runWithConcurrency returns the defined results and runScans maps them to
\* summary.results (totalSize and totalItems are sums over them)
ScanReturns ==
    /\ scanPc = "allSettled"
    /\ \A k \in awaiting : chain[k] = "settled"
    /\ scanPc' = "returned"
    /\ awaiting' = {}
    /\ scanSummary' = SummaryOf(Defined(taskResults))
    /\ UNCHANGED <<outsideScan, taskResults, executing, scanIndex, promises, chain,
                   starts>>

NextScan ==
    \/ LoopBody
    \/ \E k \in 1..Len(tasks) : ScanSettles(k)
    \/ \E k \in 1..Len(tasks) : TaskThen(k)
    \/ \E k \in 1..Len(tasks) : TaskCatch(k)
    \/ \E k \in 1..Len(tasks) : TaskFinally(k)
    \/ RaceResumes
    \/ LoopExit
    \/ ScanReturns

SpecScan == InitScan /\ [][NextScan]_vars

\* The event loop runs every queued continuation and callback, and every
\* scan eventually settles: a step that can be taken is eventually taken.
SpecScanFair == SpecScan /\ WF_vars(NextScan)

\* vocabulary of the claims about a run of the scanners
Started == {k \in 1..Len(tasks) : promises[k] # "unstarted"}

InFlight == {k \in 1..Len(tasks) : promises[k] = "pending"}

Fulfilled == {k \in 1..Len(tasks) : promises[k] = "fulfilled"}

RECURSIVE ResultsOfFulfilled(_)
\* the results of the fulfilled tasks among the first n, in task order
ResultsOfFulfilled(n) ==
    IF n = 0 THEN <<>>
    ELSE ResultsOfFulfilled(n - 1)
            \o (IF n \in Fulfilled THEN <<ScanResultOf(tasks[n])>> ELSE <<>>)

\* ------------------------------------------------------------------------
\* C39: runScans and runAllScans in parallel mode terminate for every
\* concurrency value, 0 and negative values included (the effective limit is
\* at least 1), provided every scanner's scan eventually settles; every
\* scanner's scan is started exactly once and the summary is returned only
\* after all of them have settled.
\* ------------------------------------------------------------------------
C39_ParallelScanTerminates ==
    /\ <>(scanPc = "returned")
    /\ [](limit(concurrency, Len(tasks)) >= 1)
    /\ [](\A k \in 1..Len(tasks) : starts[k] <= 1)
    /\ [](scanPc = "returned" =>
             \A k \in 1..Len(tasks) :
                /\ starts[k] = 1
                /\ promises[k] \in {"fulfilled", "rejected"}
                /\ chain[k] = "settled")

\* A run of several scanners with concurrency 0 or below has returned.
C39_Witness ==
    /\ scanPc = "returned"
    /\ concurrency <= 0
    /\ Len(tasks) >= 2
    /\ Len(scanSummary) >= 1

\* ------------------------------------------------------------------------
\* C40: in runWithConcurrency, under every interleaving of task completions,
\* the number of tasks started and not yet settled never exceeds
\* max(1, min(concurrency, number of tasks)); a task that rejects does not
\* stop the others, and the returned results are in task order with the
\* rejected tasks' results left out.
\* ------------------------------------------------------------------------
C40_InFlightBounded ==
    /\ Cardinality(InFlight) <= Max(1, Min(concurrency, Len(tasks)))
    /\ Cardinality(executing) <= limit(concurrency, Len(tasks))
    /\ scanPc = "returned" =>
          /\ Started = 1..Len(tasks)
          /\ scanSummary = ResultsOfFulfilled(Len(tasks))

\* Two scans ran side by side, the second one rejected, and the results of
\* the first and of the third were returned.
C40_Witness ==
    /\ scanPc = "returned"
    /\ concurrency = 2
    /\ Len(tasks) = 3
    /\ promises = <<"fulfilled", "rejected", "fulfilled">>
    /\ scanSummary = <<ScanResultOf(tasks[1]), ScanResultOf(tasks[3])>>

====
